---------------------------- MODULE Spec2Model ----------------------------
(***************************************************************************)
(* Model of paper-diagram-gen's diagram compiler (src/src/svg.ts):         *)
(* parseDiagramDescription, layoutNodes, renderEdge, renderNode,           *)
(* escapeXml and generateDiagram.                                          *)
(*                                                                         *)
(* Strings are sequences of one-character strings, so that split, trim,    *)
(* includes, endsWith and the regular expressions are computed character   *)
(* by character as the code computes them.  An optional value (a missing   *)
(* object key, JavaScript's undefined) is None == <<>>, a present value v  *)
(* is Some(v) == <<v>>.                                                    *)
(*                                                                         *)
(* Lengths are fixed-point numbers: the integer n stands for n / Unit      *)
(* pixels.  With Unit = 100 the factors 0.6 and 0.8 of layoutNodes and the *)
(* halvings of layoutNodes, renderNode and renderEdge are exact.           *)
(***************************************************************************)
EXTENDS Integers, Sequences, FiniteSets, TLC

VARIABLES
    stages,     \* the '->'-separated pieces the description was written from
    desc,       \* generateDiagram's argument description, a character sequence
    options,    \* generateDiagram's argument options
    pc,         \* position inside generateDiagram
    nodes,      \* the local (and returned) node list
    edges,      \* the local (and returned) edge list
    svgWidth,   \* the document's width
    svgHeight,  \* the document's height
    svgParts    \* the document, one entry per pushed part

svgVars == <<stages, desc, options, pc, nodes, edges, svgWidth, svgHeight, svgParts>>

\* parseLlmResponse (src/src/prompts.ts)
VARIABLES
    llmIn,      \* how the response was written: its items, whether it has an array
    raw,        \* parseLlmResponse's argument raw, a character sequence
    cleaned,    \* the local cleaned
    jsonStr,    \* the local jsonStr
    parsed,     \* the local parsed
    llmPc,      \* position inside parseLlmResponse
    llmResult   \* what the call returned or threw

llmVars == <<llmIn, raw, cleaned, jsonStr, parsed, llmPc, llmResult>>

\* The generate_svg tool of createDescribeTools (src/src/agent.ts)
VARIABLES
    toolInput,   \* the input string of execute, as the JSON text it is
    toolPc,      \* position inside execute
    toolOutput   \* what execute resolved to

toolVars == <<toolInput, toolPc, toolOutput>>

\* runAgent (src/src/agent.ts)
VARIABLES
    agIn,         \* options.maxSteps, and what the model and the tools may answer
    maxSteps,     \* the local maxSteps
    agI,          \* the loop counter i
    messages,     \* the local messages
    steps,        \* the local steps
    agParsed,     \* the local parsed of the current iteration
    agPc,         \* position inside runAgent
    agResult,     \* the AgentResult returned
    modelCalls,   \* calls of callLlmMultiTurn so far
    toolCalls     \* calls of tool.execute so far

agentVars == <<agIn, maxSteps, agI, messages, steps, agParsed, agPc, agResult,
               modelCalls, toolCalls>>

vars == <<svgVars, llmVars, toolVars, agentVars>>

\* No call of the generate_svg tool is under way.
ToolIdle ==
    /\ toolInput = <<>>
    /\ toolPc = "idle"
    /\ toolOutput = <<>>

\* No call of runAgent is under way.
AgentIdle ==
    /\ agIn = <<>>
    /\ maxSteps = 0
    /\ agI = 0
    /\ messages = <<>>
    /\ steps = <<>>
    /\ agParsed = <<>>
    /\ agPc = "idle"
    /\ agResult = <<>>
    /\ modelCalls = 0
    /\ toolCalls = 0

\* No call of parseLlmResponse is under way.
LlmIdle ==
    /\ llmIn = <<>>
    /\ raw = <<>>
    /\ cleaned = <<>>
    /\ jsonStr = <<>>
    /\ parsed = <<>>
    /\ llmPc = "idle"
    /\ llmResult = <<>>

-----------------------------------------------------------------------------
(* Bounds and input alphabet *)

MaxStages == 4

None == <<>>
Some(v) == <<v>>

\* The written stages the descriptions are built from.
BlankStage == <<" ", "\t">>
PlainStage == <<" ", "a", "\n">>
DecisionStage == <<"b", "?">>
BranchStage == <<"y", ":", "c", ",", "\t", "n", ":", " ", "d">>
BadBranchStage == <<"y", ":", "c", ",", "n">>
CompStage == <<"e", "\t", "[", "x", ",", " ", "z", "]">>
\* A bracket group written over two lines.
TwoLineCompStage == <<"e", "[", "x", ",", "\n", "z", "]">>
ColonStage == <<"p", ":", "q">>

StagePool ==
    {BlankStage, PlainStage, DecisionStage, BranchStage, BadBranchStage,
     CompStage, TwoLineCompStage, ColonStage}

Max(a, b) == IF a >= b THEN a ELSE b

RECURSIVE MaxOf(_, _)
\* Math.max(...xs, floor): the largest of floor and the entries of xs.
MaxOf(xs, floor) ==
    IF xs = <<>> THEN floor ELSE MaxOf(Tail(xs), Max(Head(xs), floor))

-----------------------------------------------------------------------------
(* String primitives *)

\* The white space of String.prototype.trim and of \s: tab, line feed,
\* carriage return, form feed, vertical tab, the space, the no-break space,
\* the other space separators, the line and paragraph separators and the
\* byte order mark.  A character from U+2000 on is written by its code
\* point, as in "U+2028".
WhiteSpace ==
    {" ", "\t", "\n", "\r", "\f", "", " ",
     " ", "U+2000", "U+2001", "U+2002", "U+2003", "U+2004", "U+2005",
     "U+2006", "U+2007", "U+2008", "U+2009", "U+200A", "U+2028", "U+2029",
     "U+202F", "U+205F", "U+3000", "U+FEFF"}

\* What the "." of a regular expression without the s flag does not match:
\* line feed, carriage return, U+2028, U+2029.
LineTerminators == {"\n", "\r", "U+2028", "U+2029"}

IsWhite(c) == c \in WhiteSpace

IsLineTerminator(c) == c \in LineTerminators

Includes(s, c) == \E k \in DOMAIN s : s[k] = c

EndsWith(s, c) == Len(s) > 0 /\ s[Len(s)] = c

RECURSIVE TrimStart(_)
TrimStart(s) == IF s # <<>> /\ IsWhite(Head(s)) THEN TrimStart(Tail(s)) ELSE s

RECURSIVE TrimEnd(_)
TrimEnd(s) ==
    IF s # <<>> /\ IsWhite(s[Len(s)]) THEN TrimEnd(SubSeq(s, 1, Len(s) - 1)) ELSE s

\* String.prototype.trim
Trim(s) == TrimEnd(TrimStart(s))

RECURSIVE IndexOfChar(_, _, _)
\* The first position >= k of s that holds c, or 0.
IndexOfChar(s, c, k) ==
    IF k > Len(s) THEN 0
    ELSE IF s[k] = c THEN k
    ELSE IndexOfChar(s, c, k + 1)

RECURSIVE IndexOfArrow(_, _)
\* The first position >= k of s at which "->" starts, or 0.
IndexOfArrow(s, k) ==
    IF k >= Len(s) THEN 0
    ELSE IF s[k] = "-" /\ s[k + 1] = ">" THEN k
    ELSE IndexOfArrow(s, k + 1)

RECURSIVE SplitChar(_, _)
\* s.split(c) for a one-character separator c
SplitChar(s, c) ==
    LET p == IndexOfChar(s, c, 1)
    IN  IF p = 0 THEN <<s>>
        ELSE <<SubSeq(s, 1, p - 1)>> \o SplitChar(SubSeq(s, p + 1, Len(s)), c)

RECURSIVE SplitArrow(_)
\* s.split("->")
SplitArrow(s) ==
    LET p == IndexOfArrow(s, 1)
    IN  IF p = 0 THEN <<s>>
        ELSE <<SubSeq(s, 1, p - 1)>> \o SplitArrow(SubSeq(s, p + 2, Len(s)))

RECURSIVE JoinWith(_, _)
\* xs.join(sep) for a list of strings
JoinWith(xs, sep) ==
    IF xs = <<>> THEN <<>>
    ELSE IF Len(xs) = 1 THEN xs[1]
    ELSE xs[1] \o sep \o JoinWith(Tail(xs), sep)

MapTrim(xs) == [k \in DOMAIN xs |-> Trim(xs[k])]

NonEmpty(p) == Len(p) > 0

\* Mutant of SplitStages: the empty stages are not filtered out.
SplitStagesNoFilter(d) == MapTrim(SplitArrow(d))

\* desc.split("->").map(trim).filter(length > 0)
SplitStages(d) == SelectSeq(MapTrim(SplitArrow(d)), NonEmpty)


-----------------------------------------------------------------------------
(* parseDiagramDescription *)

\* The template string `node_${n}`
NodeId(n) == <<"node_", n>>

NewNode(id, label, type, subs) ==
    [id |-> id, label |-> label, type |-> type, subComponents |-> subs,
     x |-> 0, y |-> 0, width |-> 0, height |-> 0]

\* part.includes(":") && part.includes(",")
IsBranchGroup(part) == Includes(part, ":") /\ Includes(part, ",")

\* The positions of the "[" at which /^(.+?)\[(.+)\]$/ can match part: at
\* least one character before it, at least one between it and the final
\* "]", and no line terminator in the part, which "." does not match.
CompMatchAt(part) ==
    {k \in 2..(Len(part) - 2) :
        /\ part[k] = "["
        /\ part[Len(part)] = "]"
        /\ \A j \in DOMAIN part : ~IsLineTerminator(part[j])}

HasCompMatch(part) == CompMatchAt(part) # {}

\* The lazy first group ends at the leftmost such "[".
CompOpen(part) == CHOOSE k \in CompMatchAt(part) : \A m \in CompMatchAt(part) : k <= m

\* compMatch ? compMatch[1].trim() : part
StageLabel(part) ==
    IF HasCompMatch(part) THEN Trim(SubSeq(part, 1, CompOpen(part) - 1)) ELSE part

\* compMatch ? compMatch[2].split(",").map(trim) : undefined
StageSubs(part) ==
    IF HasCompMatch(part)
    THEN Some(MapTrim(SplitChar(SubSeq(part, CompOpen(part) + 1, Len(part) - 1), ",")))
    ELSE None

\* part.endsWith("?")
IsDecision(part) == EndsWith(part, "?")

\* Mutant of StageType: the last stage is looked for at index n (off by one).
StageTypeNoEnd(part, i, n) ==
    IF IsDecision(part) THEN "decision"
    ELSE IF i = 0 THEN "start"
    ELSE IF i = n THEN "end"
    ELSE "process"

\* Mutant of StageType: the last position is tested before the first.
StageTypeLastFirst(part, i, n) ==
    IF IsDecision(part) THEN "decision"
    ELSE IF i = n - 1 THEN "end"
    ELSE IF i = 0 THEN "start"
    ELSE "process"

\* Mutant of StageType: the position is tested before the decision mark.
StageTypePositionFirst(part, i, n) ==
    IF i = 0 THEN "start"
    ELSE IF i = n - 1 THEN "end"
    ELSE IF IsDecision(part) THEN "decision"
    ELSE "process"

\* The node type of a non-branch stage: i is the 0-based index of the stage
\* among the n non-empty stages.
StageType(part, i, n) ==
    IF IsDecision(part) THEN "decision"
    ELSE IF i = 0 THEN "start"
    ELSE IF i = n - 1 THEN "end"
    ELSE "process"

\* const [label, target] = branch.split(":").map(trim)
BranchLabel(branch) == MapTrim(SplitChar(branch, ":"))[1]

BranchTarget(branch) ==
    LET pieces == MapTrim(SplitChar(branch, ":"))
    IN  IF Len(pieces) >= 2 THEN Some(pieces[2]) ELSE None

\* The edge pushed for one branch, ns being the node list after the push of
\* the branch's node: prevId = nodes[nodes.length - 2]?.id.
BranchEdges(ns, i, nodeId, label) ==
    IF i > 0 /\ Len(ns) >= 2
    THEN <<[from |-> ns[Len(ns) - 1].id, to |-> nodeId, label |-> Some(label)]>>
    ELSE <<>>

\* Mutant of PlainEdges: the loop index is compared with 1 (off by one).
PlainEdgesSkipFirst(ns, i, nodeId) ==
    IF i > 1 /\ (\E k \in DOMAIN ns : ns[k].id = NodeId(i - 1))
    THEN <<[from |-> NodeId(i - 1), to |-> nodeId, label |-> None]>>
    ELSE <<>>

\* Mutant of PlainEdges: the edge is pushed without looking the node up.
PlainEdgesUnchecked(ns, i, nodeId) ==
    IF i > 0
    THEN <<[from |-> NodeId(i - 1), to |-> nodeId, label |-> None]>>
    ELSE <<>>

\* The edge pushed for a non-branch stage, ns being the node list after the
\* push of the stage's node: prevNode = nodes.find(n => n.id === `node_${i-1}`).
PlainEdges(ns, i, nodeId) ==
    IF i > 0 /\ (\E k \in DOMAIN ns : ns[k].id = NodeId(i - 1))
    THEN <<[from |-> NodeId(i - 1), to |-> nodeId, label |-> None]>>
    ELSE <<>>

RECURSIVE BranchLoop(_, _, _, _)
\* for (const branch of branches) { ... }; g = [nodes, edges] so far
BranchLoop(branches, j, i, g) ==
    IF j > Len(branches) THEN g
    ELSE LET nodeId == NodeId(Len(g.nodes))
             ns == Append(g.nodes,
                          NewNode(nodeId, BranchTarget(branches[j]), "process", None))
             es == g.edges \o BranchEdges(ns, i, nodeId, BranchLabel(branches[j]))
         IN  BranchLoop(branches, j + 1, i, [nodes |-> ns, edges |-> es])

\* One iteration of the loop over parts for a non-branch stage.
PlainStep(part, i, n, g) ==
    LET nodeId == NodeId(i)
        ns == Append(g.nodes,
                     NewNode(nodeId, Some(StageLabel(part)), StageType(part, i, n),
                             StageSubs(part)))
    IN  [nodes |-> ns, edges |-> g.edges \o PlainEdges(ns, i, nodeId)]

RECURSIVE ParseLoop(_, _, _)
\* for (let i = 0; i < parts.length; i++) { ... }.  The branchMatch test of
\* lines 55-59 needs a "->" inside part, which split("->") has removed, so
\* part is never rewritten there.
ParseLoop(parts, i, g) ==
    IF i >= Len(parts) THEN g
    ELSE LET part == parts[i + 1]
         IN  IF IsBranchGroup(part)
             THEN ParseLoop(parts, i + 1,
                            BranchLoop(MapTrim(SplitChar(part, ",")), 1, i, g))
             ELSE ParseLoop(parts, i + 1, PlainStep(part, i, Len(parts), g))

parseDiagramDescription(d) ==
    ParseLoop(SplitStages(d), 0, [nodes |-> <<>>, edges |-> <<>>])


-----------------------------------------------------------------------------
(* layoutNodes *)

Unit == 100

PADDING == 30
MIN_WIDTH == 100
SUB_HEIGHT == 60
PLAIN_HEIGHT == 40
DECISION_WIDTH == 120
DECISION_HEIGHT == 50
ARCH_TOP == 40
PIPE_LEFT == 40
CENTER_Y == 60

\* opts.fontSize * 0.6
CharWidth(fontSize) == (fontSize * 6 * Unit) \div 10

\* node.label.length raises a TypeError when the label is undefined.
SizingThrows(ns) == \E k \in DOMAIN ns : ns[k].label = None

\* node.subComponents.join(", ").length * charWidth * 0.8, or 0
SubWidth(node, fontSize) ==
    IF node.subComponents = None THEN 0
    ELSE (Len(JoinWith(node.subComponents[1], <<",", " ">>)) * CharWidth(fontSize) * 8)
            \div 10

\* Mutant of Sized: a decision node keeps the size of a plain node.
SizedNoDecision(node, fontSize) ==
    LET textWidth == Len(node.label[1]) * CharWidth(fontSize)
        w == Max(Max(MIN_WIDTH * Unit, textWidth + PADDING * Unit),
                 SubWidth(node, fontSize) + PADDING * Unit)
        h == IF node.subComponents = None THEN PLAIN_HEIGHT * Unit ELSE SUB_HEIGHT * Unit
    IN  [node EXCEPT !.width = w, !.height = h]

\* The sizing pass for one node (lines 117-126).
Sized(node, fontSize) ==
    LET textWidth == Len(node.label[1]) * CharWidth(fontSize)
        w == Max(Max(MIN_WIDTH * Unit, textWidth + PADDING * Unit),
                 SubWidth(node, fontSize) + PADDING * Unit)
        h == IF node.subComponents = None THEN PLAIN_HEIGHT * Unit ELSE SUB_HEIGHT * Unit
    IN  IF node.type = "decision"
        THEN [node EXCEPT !.width = Max(w, DECISION_WIDTH * Unit),
                          !.height = DECISION_HEIGHT * Unit]
        ELSE [node EXCEPT !.width = w, !.height = h]

\* The nodes when the sizing loop throws: those before the first node
\* without a label have their size, the others are as they were.
SizedUntilThrow(ns, fontSize) ==
    LET bad == CHOOSE k \in DOMAIN ns :
                  ns[k].label = None /\ \A j \in 1..(k - 1) : ns[j].label # None
    IN  [k \in DOMAIN ns |-> IF k < bad THEN Sized(ns[k], fontSize) ELSE ns[k]]

RECURSIVE PlaceVerticalNoHeight(_, _, _, _, _)
\* Mutant of PlaceVertical: the running offset skips the node's height.
PlaceVerticalNoHeight(ns, k, y, width, layerSpacing) ==
    IF k > Len(ns) THEN ns
    ELSE PlaceVerticalNoHeight(
            [ns EXCEPT ![k].x = (width - ns[k].width) \div 2, ![k].y = y],
            k + 1, y + layerSpacing, width, layerSpacing)

RECURSIVE PlaceVertical(_, _, _, _, _)
\* Lines 131-136: ns[1..k-1] are placed, y is the running offset.
PlaceVertical(ns, k, y, width, layerSpacing) ==
    IF k > Len(ns) THEN ns
    ELSE PlaceVertical([ns EXCEPT ![k].x = (width - ns[k].width) \div 2, ![k].y = y],
                       k + 1, y + ns[k].height + layerSpacing, width, layerSpacing)

RECURSIVE PlaceHorizontalNoWidth(_, _, _, _, _)
\* Mutant of PlaceHorizontal: the running offset skips the node's width.
PlaceHorizontalNoWidth(ns, k, x, maxHeight, nodeSpacing) ==
    IF k > Len(ns) THEN ns
    ELSE PlaceHorizontalNoWidth(
            [ns EXCEPT ![k].x = x,
                       ![k].y = CENTER_Y * Unit + (maxHeight - ns[k].height) \div 2],
            k + 1, x + nodeSpacing, maxHeight, nodeSpacing)

RECURSIVE PlaceHorizontal(_, _, _, _, _)
\* Lines 139-146: ns[1..k-1] are placed, x is the running offset.
PlaceHorizontal(ns, k, x, maxHeight, nodeSpacing) ==
    IF k > Len(ns) THEN ns
    ELSE PlaceHorizontal(
            [ns EXCEPT ![k].x = x,
                       ![k].y = CENTER_Y * Unit + (maxHeight - ns[k].height) \div 2],
            k + 1, x + ns[k].width + nodeSpacing, maxHeight, nodeSpacing)

\* Math.max(...nodes.map(n => n.height)); -Infinity for no node, where it is
\* never read, so any floor below every height stands for it.
MaxHeight(ns) == MaxOf([k \in DOMAIN ns |-> ns[k].height], 0)

\* opts holds width, nodeSpacing, layerSpacing in fixed point and fontSize.
layoutNodes(ns, type, opts) ==
    LET sized == [k \in DOMAIN ns |-> Sized(ns[k], opts.fontSize)]
    IN  IF type = "architecture"
        THEN PlaceVertical(sized, 1, ARCH_TOP * Unit, opts.width, opts.layerSpacing)
        ELSE PlaceHorizontal(sized, 1, PIPE_LEFT * Unit, MaxHeight(sized),
                             opts.nodeSpacing)

-----------------------------------------------------------------------------
(* escapeXml, renderNode, renderEdge *)

RECURSIVE ReplaceChar(_, _, _)
\* s.replace(/c/g, rep)
ReplaceChar(s, c, rep) ==
    IF s = <<>> THEN <<>>
    ELSE (IF Head(s) = c THEN rep ELSE <<Head(s)>>) \o ReplaceChar(Tail(s), c, rep)

\* Mutant of escapeXml: '&' is replaced after the other three characters.
escapeXmlAmpLast(s) ==
    ReplaceChar(
        ReplaceChar(
            ReplaceChar(
                ReplaceChar(s, "<", <<"&", "l", "t", ";">>),
                ">", <<"&", "g", "t", ";">>),
            "\"", <<"&", "q", "u", "o", "t", ";">>),
        "&", <<"&", "a", "m", "p", ";">>)

escapeXml(s) ==
    ReplaceChar(
        ReplaceChar(
            ReplaceChar(
                ReplaceChar(s, "&", <<"&", "a", "m", "p", ";">>),
                "<", <<"&", "l", "t", ";">>),
            ">", <<"&", "g", "t", ";">>),
        "\"", <<"&", "q", "u", "o", "t", ";">>)

\* nodes.find(n => n.id === id): the first node with that id, if any
HasNode(ns, id) == \E k \in DOMAIN ns : ns[k].id = id

FindNode(ns, id) ==
    ns[CHOOSE k \in DOMAIN ns : ns[k].id = id /\ \A m \in 1..(k - 1) : ns[m].id # id]

\* The shape renderNode draws for a node type.
ShapeOf(type) ==
    IF type = "decision" THEN "diamond"
    ELSE IF type = "start" THEN "start-rect"
    ELSE IF type = "end" THEN "end-rect"
    ELSE "rect"

renderNode(node, fontSize, fontFamily) ==
    LET cx == node.x + node.width \div 2
        cy == node.y + node.height \div 2
    IN  [kind |-> "node", shape |-> ShapeOf(node.type),
         x |-> node.x, y |-> node.y, width |-> node.width, height |-> node.height,
         textX |-> cx,
         textY |-> IF node.subComponents = None THEN cy + 4 * Unit ELSE cy - 6 * Unit,
         fontFamily |-> fontFamily, fontSize |-> fontSize,
         text |-> escapeXml(node.label[1]),
         sub |-> IF node.subComponents = None THEN None
                 ELSE Some([x |-> cx, y |-> cy + 14 * Unit, fontSize |-> fontSize - 2,
                            text |-> <<"[">>
                                     \o escapeXml(JoinWith(node.subComponents[1],
                                                           <<",", " ">>))
                                     \o <<"]">>])]

\* if (edge.label): an absent or empty label draws no text
Truthy(label) == label # None /\ label[1] # <<>>

\* Mutant of renderEdge: every edge is attached as in a horizontal layout.
renderEdgeHorizontal(edge, ns, vertical) ==
    IF ~HasNode(ns, edge.from) \/ ~HasNode(ns, edge.to)
    THEN [kind |-> "empty"]
    ELSE LET from == FindNode(ns, edge.from)
             to == FindNode(ns, edge.to)
             x1 == from.x + from.width
             y1 == from.y + from.height \div 2
             x2 == to.x
             y2 == to.y + to.height \div 2
         IN  [kind |-> "line", x1 |-> x1, y1 |-> y1, x2 |-> x2, y2 |-> y2,
              marker |-> "url(#arrowhead)",
              text |-> IF Truthy(edge.label)
                       THEN Some([x |-> (x1 + x2) \div 2,
                                  y |-> (y1 + y2) \div 2 - 8 * Unit,
                                  text |-> escapeXml(edge.label[1])])
                       ELSE None]

renderEdge(edge, ns, vertical) ==
    IF ~HasNode(ns, edge.from) \/ ~HasNode(ns, edge.to)
    THEN [kind |-> "empty"]
    ELSE LET from == FindNode(ns, edge.from)
             to == FindNode(ns, edge.to)
             x1 == IF vertical THEN from.x + from.width \div 2 ELSE from.x + from.width
             y1 == IF vertical THEN from.y + from.height ELSE from.y + from.height \div 2
             x2 == IF vertical THEN to.x + to.width \div 2 ELSE to.x
             y2 == IF vertical THEN to.y ELSE to.y + to.height \div 2
         IN  [kind |-> "line", x1 |-> x1, y1 |-> y1, x2 |-> x2, y2 |-> y2,
              marker |-> "url(#arrowhead)",
              text |-> IF Truthy(edge.label)
                       THEN Some([x |-> (x1 + x2) \div 2,
                                  y |-> (y1 + y2) \div 2 - 8 * Unit,
                                  text |-> escapeXml(edge.label[1])])
                       ELSE None]


-----------------------------------------------------------------------------
(* generateDiagram *)

DEFAULT_FONT_SIZE == 14
DEFAULT_NODE_SPACING == 60
DEFAULT_LAYER_SPACING == 50
DEFAULT_WIDTH == 800
CANVAS_FLOOR_X == 200
CANVAS_FLOOR_Y == 100
CANVAS_MARGIN == 40

DefaultType == "pipeline"
DefaultFontFamily == "Arial, Helvetica, sans-serif"

\* options.k || fallback for a number: undefined and 0 are falsy
OrNumber(opt, fallback) ==
    IF opt = None THEN fallback ELSE IF opt[1] = 0 THEN fallback ELSE opt[1]

\* options.k || fallback for a string: undefined and "" are falsy
OrString(opt, fallback) ==
    IF opt = None THEN fallback ELSE IF opt[1] = "" THEN fallback ELSE opt[1]

EffType(o) == OrString(o.type, DefaultType)
EffFontSize(o) == OrNumber(o.fontSize, DEFAULT_FONT_SIZE)
EffFontFamily(o) == OrString(o.fontFamily, DefaultFontFamily)
\* Mutant of EffNodeSpacing: the fallback is the layer spacing.
EffNodeSpacingFromLayer(o) == OrNumber(o.nodeSpacing, OrNumber(o.layerSpacing, 50))

EffNodeSpacing(o) == OrNumber(o.nodeSpacing, DEFAULT_NODE_SPACING)
EffLayerSpacing(o) == OrNumber(o.layerSpacing, DEFAULT_LAYER_SPACING)
EffWidth(o) == OrNumber(o.width, DEFAULT_WIDTH)

\* The opts object handed to layoutNodes, lengths in fixed point.
LayoutOpts(o) ==
    [width |-> EffWidth(o) * Unit, nodeSpacing |-> EffNodeSpacing(o) * Unit,
     layerSpacing |-> EffLayerSpacing(o) * Unit, fontSize |-> EffFontSize(o)]

\* Mutant of CanvasWidth: the inner maximum has no floor of 200.
CanvasWidthNoFloor(ns) ==
    Max(MaxOf([k \in DOMAIN ns |-> ns[k].x + ns[k].width], 0) + CANVAS_MARGIN * Unit,
        CANVAS_FLOOR_X * Unit)

\* Math.max(Math.max(...nodes.map(n => n.x + n.width), 200) + 40, 200)
CanvasWidth(ns) ==
    Max(MaxOf([k \in DOMAIN ns |-> ns[k].x + ns[k].width], CANVAS_FLOOR_X * Unit)
            + CANVAS_MARGIN * Unit,
        CANVAS_FLOOR_X * Unit)

\* Mutant of CanvasHeight: the margin of 40 is left out.
CanvasHeightNoMargin(ns) ==
    Max(MaxOf([k \in DOMAIN ns |-> ns[k].y + ns[k].height], CANVAS_FLOOR_Y * Unit),
        CANVAS_FLOOR_Y * Unit)

\* Math.max(Math.max(...nodes.map(n => n.y + n.height), 100) + 40, 100)
CanvasHeight(ns) ==
    Max(MaxOf([k \in DOMAIN ns |-> ns[k].y + ns[k].height], CANVAS_FLOOR_Y * Unit)
            + CANVAS_MARGIN * Unit,
        CANVAS_FLOOR_Y * Unit)

\* Mutant of Document: the nodes are pushed before the edges.
DocumentNodesFirst(ns, es, o) ==
    <<[kind |-> "svg", xmlns |-> "http://www.w3.org/2000/svg",
       width |-> CanvasWidth(ns), height |-> CanvasHeight(ns)],
      [kind |-> "defs"], [kind |-> "marker", id |-> "arrowhead"],
      [kind |-> "marker-polygon"], [kind |-> "/marker"], [kind |-> "/defs"],
      [kind |-> "background"]>>
    \o [k \in DOMAIN ns |-> renderNode(ns[k], EffFontSize(o), EffFontFamily(o))]
    \o [k \in DOMAIN es |-> renderEdge(es[k], ns, EffType(o) = "architecture")]
    \o <<[kind |-> "/svg"]>>

\* The parts pushed on svgParts, lines 239-254.
Document(ns, es, o) ==
    <<[kind |-> "svg", xmlns |-> "http://www.w3.org/2000/svg",
       width |-> CanvasWidth(ns), height |-> CanvasHeight(ns)],
      [kind |-> "defs"], [kind |-> "marker", id |-> "arrowhead"],
      [kind |-> "marker-polygon"], [kind |-> "/marker"], [kind |-> "/defs"],
      [kind |-> "background"]>>
    \o [k \in DOMAIN es |-> renderEdge(es[k], ns, EffType(o) = "architecture")]
    \o [k \in DOMAIN ns |-> renderNode(ns[k], EffFontSize(o), EffFontFamily(o))]
    \o <<[kind |-> "/svg"]>>

NoOptions ==
    [type |-> None, width |-> None, nodeSpacing |-> None, layerSpacing |-> None,
     fontSize |-> None, fontFamily |-> None]

\* The option objects the calls are made with.
OptionsPool == {NoOptions, [NoOptions EXCEPT !.type = Some("architecture")]}

\* The written stage lists: up to MaxStages stages joined by "->".
StageLists == UNION {[1..n -> StagePool] : n \in 0..MaxStages}

Init ==
    /\ stages \in StageLists
    /\ desc = JoinWith(stages, <<"-", ">">>)
    /\ options \in OptionsPool
    /\ pc = "start"
    /\ nodes = <<>>
    /\ edges = <<>>
    /\ svgWidth = 0
    /\ svgHeight = 0
    /\ svgParts = <<>>
    /\ LlmIdle
    /\ ToolIdle
    /\ AgentIdle

\* const { nodes, edges } = parseDiagramDescription(description)
Parse ==
    /\ pc = "start"
    /\ LET g == parseDiagramDescription(desc)
       IN  nodes' = g.nodes /\ edges' = g.edges
    /\ pc' = "parsed"
    /\ UNCHANGED <<stages, desc, options, svgWidth, svgHeight, svgParts>>
    /\ UNCHANGED <<llmVars, toolVars, agentVars>>

\* layoutNodes(nodes, type, {...}) returning normally
Layout ==
    /\ pc = "parsed"
    /\ ~SizingThrows(nodes)
    /\ nodes' = layoutNodes(nodes, EffType(options), LayoutOpts(options))
    /\ pc' = "laid"
    /\ UNCHANGED <<stages, desc, options, edges, svgWidth, svgHeight, svgParts>>
    /\ UNCHANGED <<llmVars, toolVars, agentVars>>

\* layoutNodes raising the TypeError of node.label.length, after it has
\* sized the nodes before that one: generateDiagram has no handler, the
\* exception leaves it and nothing is returned.
LayoutThrow ==
    /\ pc = "parsed"
    /\ SizingThrows(nodes)
    /\ nodes' = SizedUntilThrow(nodes, LayoutOpts(options).fontSize)
    /\ pc' = "threw"
    /\ UNCHANGED <<stages, desc, options, edges, svgWidth, svgHeight, svgParts>>
    /\ UNCHANGED <<llmVars, toolVars, agentVars>>

\* Lines 230-256: the canvas, the parts and the returned DiagramResult.
Render ==
    /\ pc = "laid"
    /\ svgWidth' = CanvasWidth(nodes)
    /\ svgHeight' = CanvasHeight(nodes)
    /\ svgParts' = Document(nodes, edges, options)
    /\ pc' = "done"
    /\ UNCHANGED <<stages, desc, options, nodes, edges>>
    /\ UNCHANGED <<llmVars, toolVars, agentVars>>

Next == Parse \/ Layout \/ LayoutThrow \/ Render

Spec == Init /\ [][Next]_vars


-----------------------------------------------------------------------------
(* The written description, as the claims speak of it *)

\* A written stage of zero length after trimming.
BlankWritten(p) == \A k \in DOMAIN p : p[k] \in WhiteSpace

Written(p) == ~BlankWritten(p)

\* The non-empty stages in declaration order, trimmed.
Stage == MapTrim(SelectSeq(stages, Written))

\* A branch-group stage: it contains both ':' and ','.
BranchWritten(p) == (\E k \in DOMAIN p : p[k] = ":") /\ (\E k \in DOMAIN p : p[k] = ",")

NoBranchWritten(st) == \A k \in DOMAIN st : ~BranchWritten(st[k])

\* The comma-separated pairs of a branch-group stage.
Pairs(p) == SplitChar(p, ",")

\* The number of nodes a stage stands for: one per pair, or one.
NodesOf(p) == IF BranchWritten(p) THEN Len(Pairs(p)) ELSE 1

RECURSIVE NodesBefore(_, _)
\* The number of nodes of the stages before the k-th stage of st.
NodesBefore(st, k) ==
    IF k <= 1 THEN 0 ELSE NodesBefore(st, k - 1) + NodesOf(st[k - 1])

\* The positions in the node list of the nodes of the k-th stage of st.
NodeRange(st, k) == (NodesBefore(st, k) + 1)..(NodesBefore(st, k) + NodesOf(st[k]))

Parsed == pc # "start"

IsPrefix(a, b) == Len(a) <= Len(b) /\ SubSeq(b, 1, Len(a)) = a

-----------------------------------------------------------------------------
(* Claims *)

\* C1: a description without branch-group stage gives exactly one node per
\* non-empty stage, in declaration order, and one edge from each node to the
\* next one (node count - 1 edges, none for a single stage or for no stage);
\* the first node has no incoming edge.
C1_ChainOfStages ==
    Parsed =>
        LET st == Stage
        IN  NoBranchWritten(st) =>
              /\ Len(nodes) = Len(st)
              /\ \A k \in DOMAIN st :
                    /\ nodes[k].label # None
                    /\ IsPrefix(nodes[k].label[1], st[k])
              /\ Len(edges) = (IF Len(st) = 0 THEN 0 ELSE Len(st) - 1)
              /\ \A k \in DOMAIN edges :
                    /\ edges[k].from = nodes[k].id
                    /\ edges[k].to = nodes[k + 1].id
                    /\ edges[k].from # edges[k].to
                    /\ edges[k].to # nodes[1].id

C1_Witness ==
    /\ pc = "done"
    /\ NoBranchWritten(Stage)
    /\ Len(stages) > Len(Stage)
    /\ Len(Stage) = 3
    /\ Len(nodes) = 3
    /\ Len(edges) = 2
    /\ \E k \in DOMAIN nodes : nodes[k].subComponents # None

\* C2: for a branch-group stage that is not the first stage, every
\* 'Label: Target' pair yields one process node labelled Target and one edge
\* labelled Label from the node of the previous stage to it, all pairs of the
\* group sharing that source.
C2_BranchFanOut ==
    Parsed =>
        LET st == Stage
        IN  \A k \in 2..Len(st) :
              BranchWritten(st[k]) =>
                /\ Len(nodes) >= NodesBefore(st, k) + NodesOf(st[k])
                /\ \A j \in 1..Len(Pairs(st[k])) :
                      LET pair == MapTrim(SplitChar(Pairs(st[k])[j], ":"))
                          node == nodes[NodesBefore(st, k) + j]
                      IN  Len(pair) >= 2 =>
                            /\ node.type = "process"
                            /\ node.label = Some(pair[2])
                            /\ \E e \in DOMAIN edges :
                                  /\ edges[e].to = node.id
                                  /\ edges[e].label = Some(pair[1])
                                  /\ \E m \in NodeRange(st, k - 1) :
                                        edges[e].from = nodes[m].id

\* C3: no two nodes of the returned node list have the same id.
C3_UniqueIds ==
    Parsed => \A k, m \in DOMAIN nodes : k # m => nodes[k].id # nodes[m].id

\* C4: generateDiagram never throws, whatever the description.
C4_NeverThrows == pc # "threw"

\* C5: every edge's from and to are ids of nodes of the same node list, so
\* renderEdge never returns the empty string for a missing endpoint.
C5_NoDanglingEdge ==
    /\ Parsed =>
          \A k \in DOMAIN edges :
              HasNode(nodes, edges[k].from) /\ HasNode(nodes, edges[k].to)
    /\ pc = "done" =>
          /\ Len(svgParts) = 8 + Len(edges) + Len(nodes)
          /\ \A k \in DOMAIN svgParts : svgParts[k].kind # "empty"

\* A plain stage whose predecessor id node_(i-1) was never handed out: the
\* lookup of line 98 finds nothing and the stage gets no edge.
C5_Witness ==
    /\ pc = "done"
    /\ Len(edges) >= 3
    /\ \E k \in DOMAIN nodes :
          /\ nodes[k].id[2] > 0
          /\ nodes[k].type = "end"
          /\ ~HasNode(nodes, NodeId(nodes[k].id[2] - 1))

\* A stage whose trimmed text ends with '?'.
DecisionWritten(p) == Len(p) > 0 /\ p[Len(p)] = "?"

\* A stage that is neither a decision nor a branch group.
PositionalWritten(p) == ~BranchWritten(p) /\ ~DecisionWritten(p)

OfType(t) == {k \in DOMAIN nodes : nodes[k].type = t}

\* C6 as stated: with two or more nodes, exactly one node is start and it is
\* the first one, exactly one node is end and it is the last one.
C6_ExactlyOneStartAndEnd ==
    (Parsed /\ Len(nodes) >= 2) =>
        /\ OfType("start") = {1}
        /\ OfType("end") = {Len(nodes)}

\* C6 amended: with two or more nodes, at most one node is start and at most
\* one is end; a start node exists exactly when the first stage is neither a
\* decision nor a branch group, and it is the first node; an end node exists
\* exactly when the last stage is not the first stage and is neither a
\* decision nor a branch group, and it is the last node.
C6_StartEndByStage ==
    (Parsed /\ Len(nodes) >= 2) =>
        LET st == Stage
        IN  /\ OfType("start") = (IF PositionalWritten(st[1]) THEN {1} ELSE {})
            /\ OfType("end") =
                  (IF Len(st) >= 2 /\ PositionalWritten(st[Len(st)])
                   THEN {Len(nodes)} ELSE {})

C6_Witness ==
    /\ pc = "done"
    /\ Len(Stage) >= 3
    /\ PositionalWritten(Stage[1])
    /\ PositionalWritten(Stage[Len(Stage)])
    /\ \E k \in 2..(Len(Stage) - 1) : BranchWritten(Stage[k])
    /\ nodes[1].type = "start"
    /\ nodes[Len(nodes)].type = "end"

\* C7: the node of a stage that is neither a decision nor a branch group is
\* start for the first non-empty stage, end for the last one when it is not
\* the first, process for every stage in between.
C7_PositionalKind ==
    Parsed =>
        LET st == Stage
        IN  \A k \in DOMAIN st :
              PositionalWritten(st[k]) =>
                /\ Len(nodes) > NodesBefore(st, k)
                /\ nodes[NodesBefore(st, k) + 1].type =
                      (IF k = 1 THEN "start"
                       ELSE IF k = Len(st) THEN "end"
                       ELSE "process")

C7_Witness ==
    /\ pc = "done"
    /\ Len(Stage) = 1
    /\ Len(stages) > 1
    /\ PositionalWritten(Stage[1])
    /\ nodes[1].type = "start"

\* C8: a non-branch stage whose trimmed text ends with '?' yields a decision
\* node at the first, an interior or the last position, labelled with the
\* whole stage text.
C8_DecisionAnywhere ==
    Parsed =>
        LET st == Stage
        IN  \A k \in DOMAIN st :
              (~BranchWritten(st[k]) /\ DecisionWritten(st[k])) =>
                /\ Len(nodes) > NodesBefore(st, k)
                /\ nodes[NodesBefore(st, k) + 1].type = "decision"
                /\ nodes[NodesBefore(st, k) + 1].label = Some(st[k])

C8_Witness ==
    /\ pc = "done"
    /\ Len(Stage) >= 3
    /\ DecisionWritten(Stage[1])
    /\ DecisionWritten(Stage[2])
    /\ DecisionWritten(Stage[Len(Stage)])
    /\ OfType("decision") = DOMAIN nodes

\* The identity, label, kind and sub-items of a node.
Core(n) ==
    [id |-> n.id, label |-> n.label, type |-> n.type, subComponents |-> n.subComponents]

\* The description written from the non-empty stages only.
WithoutBlanks == JoinWith(SelectSeq(stages, Written), <<"-", ">">>)

\* C9: empty stages are dropped without effect: the description with them
\* has the nodes (ids, labels, kinds) and the edges of the description
\* without them.
C9_BlankStagesDropped ==
    (Parsed /\ \E k \in DOMAIN stages : BlankWritten(stages[k])) =>
        LET g == parseDiagramDescription(WithoutBlanks)
        IN  /\ [k \in DOMAIN nodes |-> Core(nodes[k])] =
                  [k \in DOMAIN g.nodes |-> Core(g.nodes[k])]
            /\ edges = g.edges
            /\ \A k \in DOMAIN nodes : nodes[k].label # Some(<<>>)

C9_Witness ==
    /\ pc = "done"
    /\ Len(stages) = 4
    /\ BlankWritten(stages[1])
    /\ Written(stages[2])
    /\ BlankWritten(stages[3])
    /\ Written(stages[4])
    /\ Len(nodes) = 2
    /\ edges = <<[from |-> nodes[1].id, to |-> nodes[2].id, label |-> None]>>

\* C10: a description without non-empty stage never throws and gives zero
\* nodes, zero edges and a well-formed document of width 240 and height 140.
C10_EmptyDiagram ==
    (\A k \in DOMAIN stages : BlankWritten(stages[k])) =>
        /\ pc # "threw"
        /\ nodes = <<>>
        /\ edges = <<>>
        /\ pc = "done" =>
              /\ svgWidth = 240 * Unit
              /\ svgHeight = 140 * Unit
              /\ Len(svgParts) = 8
              /\ svgParts[1] = [kind |-> "svg", xmlns |-> "http://www.w3.org/2000/svg",
                                width |-> 240 * Unit, height |-> 140 * Unit]
              /\ svgParts[8] = [kind |-> "/svg"]

C10_Witness ==
    /\ pc = "done"
    /\ Len(stages) >= 2
    /\ \A k \in DOMAIN stages : BlankWritten(stages[k])
    /\ svgWidth = 240 * Unit
    /\ svgHeight = 140 * Unit


\* The position of the "[" opening the trailing bracket group of a stage
\* 'Name[items]' (a name, a non-empty group, the stage ending in "]"), or 0.
GroupOpen(p) ==
    LET open == IndexOfChar(p, "[", 2)
    IN  IF Len(p) > 0 /\ p[Len(p)] = "]" /\ open # 0 /\ open <= Len(p) - 2
        THEN open ELSE 0

\* C11: a sub-component stage 'Name[item1,item2,...]' yields one node
\* labelled Name, trimmed, whose sub-items are the comma-separated inner
\* items, each trimmed, in written order; a stage without trailing bracket
\* group has no sub-item list.
C11_SubComponents ==
    Parsed =>
        LET st == Stage
        IN  \A k \in DOMAIN st :
              ~BranchWritten(st[k]) =>
                LET p == st[k]
                    node == nodes[NodesBefore(st, k) + 1]
                IN  /\ Len(nodes) > NodesBefore(st, k)
                    /\ IF GroupOpen(p) # 0
                       THEN /\ node.label = Some(Trim(SubSeq(p, 1, GroupOpen(p) - 1)))
                            /\ node.subComponents =
                                  Some(MapTrim(SplitChar(
                                      SubSeq(p, GroupOpen(p) + 1, Len(p) - 1), ",")))
                            /\ p = Trim(CompStage) =>
                                  /\ node.label = Some(<<"e">>)
                                  /\ node.subComponents = Some(<<<<"x">>, <<"z">>>>)
                       ELSE node.subComponents = None



-----------------------------------------------------------------------------
(* Layout: descriptions with short, medium and very long labels, compiled   *)
(* under option objects that set the style, the spacings, the target width  *)
(* and the font size.                                                       *)

MaxLayoutStages == 3

\* A label of n letters.
Letters(n) == [k \in 1..n |-> "a"]

\* A sub-component stage whose sub-item line is wider than its name.
WideSubStage == <<"e", "[">> \o Letters(16) \o <<",", "z", "]">>

\* Labels below the minimum width, above it, and wider than the default
\* target width of 800 (92 letters of 8.4 and the padding make 802.8).
LayoutStagePool ==
    {Letters(1), Letters(10), Letters(92), DecisionStage, WideSubStage, BadBranchStage}

LayoutOptionsPool ==
    {NoOptions,
     [NoOptions EXCEPT !.type = Some("architecture")],
     [NoOptions EXCEPT !.type = Some("flowchart")],
     [NoOptions EXCEPT !.type = Some("radial")],
     [NoOptions EXCEPT !.nodeSpacing = Some(25), !.fontSize = Some(20)],
     [NoOptions EXCEPT !.nodeSpacing = Some(0 - 150)],
     [NoOptions EXCEPT !.type = Some("architecture"), !.layerSpacing = Some(0 - 45)],
     [NoOptions EXCEPT !.type = Some("architecture"), !.layerSpacing = Some(20),
                       !.width = Some(400)]}

InitLayout ==
    /\ stages \in UNION {[1..n -> LayoutStagePool] : n \in 0..MaxLayoutStages}
    /\ desc = JoinWith(stages, <<" ", "-", ">", " ">>)
    /\ options \in LayoutOptionsPool
    /\ pc = "start"
    /\ nodes = <<>>
    /\ edges = <<>>
    /\ svgWidth = 0
    /\ svgHeight = 0
    /\ svgParts = <<>>
    /\ LlmIdle
    /\ ToolIdle
    /\ AgentIdle

SpecLayout == InitLayout /\ [][Next]_vars

DefaultsOnly(o) ==
    /\ o.width = None
    /\ o.nodeSpacing = None
    /\ o.layerSpacing = None
    /\ o.fontSize = None
    /\ o.fontFamily = None

\* C12: after generateDiagram every node has x >= 0, y >= 0, width >= 0 and
\* height >= 0, for every style and every label length, with the default
\* spacings, width and font size.
C12_NonNegativeGeometry ==
    (pc = "done" /\ DefaultsOnly(options)) =>
        \A k \in DOMAIN nodes :
            /\ nodes[k].x >= 0
            /\ nodes[k].y >= 0
            /\ nodes[k].width >= 0
            /\ nodes[k].height >= 0


\* The nodes carry their geometry.
LaidOut == pc \in {"laid", "done"}

Horizontal == EffType(options) # "architecture"

\* The largest height among the nodes.
Tallest == CHOOSE h \in {nodes[k].height : k \in DOMAIN nodes} :
               \A m \in DOMAIN nodes : nodes[m].height <= h

\* First x = 40, each next x = previous x + previous width + nodeSpacing.
XAccumulates ==
    \A k \in DOMAIN nodes :
        nodes[k].x = (IF k = 1 THEN 40 * Unit
                      ELSE nodes[k - 1].x + nodes[k - 1].width
                               + EffNodeSpacing(options) * Unit)

\* y = 60 + (tallest height - own height) / 2: one vertical centre line.
SharedCentreLine ==
    /\ \A k \in DOMAIN nodes :
          2 * (nodes[k].y - 60 * Unit) = Tallest - nodes[k].height
    /\ \A k, m \in DOMAIN nodes :
          2 * nodes[k].y + nodes[k].height = 2 * nodes[m].y + nodes[m].height

\* x strictly increasing and no two boxes overlapping horizontally.
LeftToRight ==
    \A k \in DOMAIN nodes :
        k > 1 => /\ nodes[k - 1].x < nodes[k].x
                 /\ nodes[k - 1].x + nodes[k - 1].width <= nodes[k].x

\* C13 as stated: for every style other than architecture and every option
\* object, x accumulates from 40, is strictly increasing without horizontal
\* overlap, and all nodes share one vertical centre line.
C13_HorizontalPlacement ==
    (LaidOut /\ Horizontal) => (XAccumulates /\ SharedCentreLine /\ LeftToRight)

\* C13 amended: for every style other than architecture, x accumulates from
\* 40 by width + nodeSpacing and all nodes share one vertical centre line;
\* when nodeSpacing is not negative, x is strictly increasing and the boxes
\* do not overlap horizontally.
C13_HorizontalPlacementSpaced ==
    (LaidOut /\ Horizontal) =>
        /\ XAccumulates
        /\ SharedCentreLine
        /\ EffNodeSpacing(options) >= 0 => LeftToRight

C13_Witness ==
    /\ pc = "done"
    /\ options.type = Some("radial")
    /\ Len(nodes) = 3
    /\ nodes[1].height # nodes[2].height
    /\ nodes[2].height # nodes[3].height
    /\ nodes[1].width > 100 * Unit
    /\ nodes[3].x = 40 * Unit + nodes[1].width + nodes[2].width + 120 * Unit

\* First y = 40, each next y = previous y + previous height + layerSpacing.
YAccumulates ==
    \A k \in DOMAIN nodes :
        nodes[k].y = (IF k = 1 THEN 40 * Unit
                      ELSE nodes[k - 1].y + nodes[k - 1].height
                               + EffLayerSpacing(options) * Unit)

\* x + width / 2 = targetWidth / 2, so equal widths give equal x.
CentredOnWidth ==
    /\ \A k \in DOMAIN nodes :
          2 * nodes[k].x + nodes[k].width = EffWidth(options) * Unit
    /\ \A k, m \in DOMAIN nodes :
          nodes[k].width = nodes[m].width => nodes[k].x = nodes[m].x

\* y strictly increasing and no two boxes overlapping vertically.
TopToBottom ==
    \A k \in DOMAIN nodes :
        k > 1 => /\ nodes[k - 1].y < nodes[k].y
                 /\ nodes[k - 1].y + nodes[k - 1].height <= nodes[k].y

\* C14 as stated: for style architecture and every option object, y
\* accumulates from 40, is strictly increasing without vertical overlap, and
\* every node is centred on the target width.
C14_VerticalPlacement ==
    (LaidOut /\ ~Horizontal) => (YAccumulates /\ CentredOnWidth /\ TopToBottom)

\* C14 amended: for style architecture, y accumulates from 40 by height +
\* layerSpacing and every node is centred on the target width; when
\* layerSpacing is not negative, y is strictly increasing and the boxes do
\* not overlap vertically.
C14_VerticalPlacementSpaced ==
    (LaidOut /\ ~Horizontal) =>
        /\ YAccumulates
        /\ CentredOnWidth
        /\ EffLayerSpacing(options) >= 0 => TopToBottom

C14_Witness ==
    /\ pc = "done"
    /\ options.type = Some("architecture")
    /\ options.width = Some(400)
    /\ Len(nodes) = 3
    /\ nodes[1].width = nodes[3].width
    /\ nodes[1].width # nodes[2].width
    /\ nodes[1].x = nodes[3].x
    /\ nodes[3].y = 40 * Unit + nodes[1].height + nodes[2].height + 40 * Unit


-----------------------------------------------------------------------------
(* Escaping: descriptions whose labels, sub-items and branch labels hold    *)
(* the reserved characters and text that already looks like an entity.      *)

MaxEscapeStages == 2

EscapeStagePool ==
    {<<"a", "<", "b", ">">>,
     <<"c", "&", "d">>,
     <<"\"", "&", "l", "t", ";">>,
     <<"e", "[", "<", ",", "&", "]">>,
     <<"<", ":", "&", ",", ">", ":", "\"">>,
     BadBranchStage}

InitEscape ==
    /\ stages \in UNION {[1..n -> EscapeStagePool] : n \in 0..MaxEscapeStages}
    /\ desc = JoinWith(stages, <<" ", "-", ">", " ">>)
    /\ options \in OptionsPool
    /\ pc = "start"
    /\ nodes = <<>>
    /\ edges = <<>>
    /\ svgWidth = 0
    /\ svgHeight = 0
    /\ svgParts = <<>>
    /\ LlmIdle
    /\ ToolIdle
    /\ AgentIdle

SpecEscape == InitEscape /\ [][Next]_vars

AMP == <<"&", "a", "m", "p", ";">>
LT == <<"&", "l", "t", ";">>
GT == <<"&", "g", "t", ";">>
QUOT == <<"&", "q", "u", "o", "t", ";">>

StartsWith(s, k, e) == k + Len(e) - 1 <= Len(s) /\ SubSeq(s, k, k + Len(e) - 1) = e

\* No raw '<', '>' or '"', and every '&' starts one of the four entities.
SafeText(t) ==
    \A k \in DOMAIN t :
        /\ t[k] \notin {"<", ">", "\""}
        /\ t[k] = "&" =>
              \/ StartsWith(t, k, AMP)
              \/ StartsWith(t, k, LT)
              \/ StartsWith(t, k, GT)
              \/ StartsWith(t, k, QUOT)

RECURSIVE Decoded(_)
\* The text a reader of the document gets back: each entity read once.
Decoded(t) ==
    IF t = <<>> THEN <<>>
    ELSE IF StartsWith(t, 1, AMP) THEN <<"&">> \o Decoded(SubSeq(t, 6, Len(t)))
    ELSE IF StartsWith(t, 1, LT) THEN <<"<">> \o Decoded(SubSeq(t, 5, Len(t)))
    ELSE IF StartsWith(t, 1, GT) THEN <<">">> \o Decoded(SubSeq(t, 5, Len(t)))
    ELSE IF StartsWith(t, 1, QUOT) THEN <<"\"">> \o Decoded(SubSeq(t, 7, Len(t)))
    ELSE <<Head(t)>> \o Decoded(Tail(t))

\* The text between the brackets of a sub-item line.
Unbracketed(t) == SubSeq(t, 2, Len(t) - 1)

\* C15: every main label, joined sub-item text and edge label is written
\* escaped: the text content holds no raw '<', '>' or '"', every '&' starts
\* one of &amp; &lt; &gt; &quot;, and reading each entity once gives back the
\* original text (no double escaping).
C15_TextEscaped ==
    pc = "done" =>
        /\ \A k \in DOMAIN nodes :
              LET part == svgParts[7 + Len(edges) + k]
              IN  /\ part.kind = "node"
                  /\ SafeText(part.text)
                  /\ Decoded(part.text) = nodes[k].label[1]
                  /\ (part.sub # None) = (nodes[k].subComponents # None)
                  /\ part.sub # None =>
                        /\ SafeText(part.sub[1].text)
                        /\ Decoded(Unbracketed(part.sub[1].text)) =
                              JoinWith(nodes[k].subComponents[1], <<",", " ">>)
        /\ \A k \in DOMAIN edges :
              LET part == svgParts[7 + k]
              IN  /\ part.kind = "line"
                  /\ (part.text # None) = Truthy(edges[k].label)
                  /\ part.text # None =>
                        /\ SafeText(part.text[1].text)
                        /\ Decoded(part.text[1].text) = edges[k].label[1]

C15_Witness ==
    /\ pc = "done"
    /\ \E k \in DOMAIN nodes : nodes[k].label = Some(<<"\"", "&", "l", "t", ";">>)
    /\ \E k \in DOMAIN nodes :
          /\ nodes[k].subComponents = Some(<<<<"<">>, <<"&">>>>)
          /\ svgParts[7 + Len(edges) + k].sub[1].text =
                <<"[">> \o LT \o <<",", " ">> \o AMP \o <<"]">>
    /\ \E k \in DOMAIN svgParts :
          /\ svgParts[k].kind = "node"
          /\ svgParts[k].text = QUOT \o AMP \o <<"l", "t", ";">>


\* The kinds of the seven parts that open every document.
Preamble == <<"svg", "defs", "marker", "marker-polygon", "/marker", "/defs", "background">>

\* C17: the document lists, in this order, the svg root with namespace and
\* dimensions, the arrowhead marker definition, the background, one entry
\* per edge in edge-list order, one entry per node in node-list order and
\* the closing tag; no node shape comes before the last edge.
C17_DocumentOrder ==
    pc = "done" =>
        /\ Len(svgParts) = 8 + Len(edges) + Len(nodes)
        /\ \A k \in 1..7 : svgParts[k].kind = Preamble[k]
        /\ svgParts[1].xmlns = "http://www.w3.org/2000/svg"
        /\ svgParts[1].width = svgWidth
        /\ svgParts[1].height = svgHeight
        /\ svgParts[3].id = "arrowhead"
        /\ \A k \in DOMAIN edges :
              svgParts[7 + k] =
                  renderEdge(edges[k], nodes, EffType(options) = "architecture")
        /\ \A k \in DOMAIN nodes :
              LET part == svgParts[7 + Len(edges) + k]
              IN  /\ part.kind = "node"
                  /\ part.x = nodes[k].x
                  /\ part.y = nodes[k].y
                  /\ part.shape = ShapeOf(nodes[k].type)
        /\ svgParts[Len(svgParts)].kind = "/svg"
        /\ \A i, j \in DOMAIN svgParts :
              (svgParts[i].kind = "node" /\ svgParts[j].kind = "line") => j < i

C17_Witness ==
    /\ pc = "done"
    /\ Len(edges) >= 3
    /\ Len(nodes) >= 4
    /\ svgParts[8].kind = "line"
    /\ svgParts[8].text = None
    /\ svgParts[9].text # None
    /\ svgParts[7 + Len(edges)].kind = "line"
    /\ svgParts[8 + Len(edges)].kind = "node"


-----------------------------------------------------------------------------
(* Options: every combination of supplied, omitted and falsy options.       *)

OptionObjects ==
    [type : {None, Some("architecture"), Some("")},
     width : {None, Some(400), Some(0)},
     nodeSpacing : {None, Some(25)},
     layerSpacing : {None, Some(20)},
     fontSize : {None, Some(20)},
     fontFamily : {None, Some("serif")}]

InitOptions ==
    /\ stages \in {<<Letters(10), DecisionStage>>, <<BadBranchStage>>}
    /\ desc = JoinWith(stages, <<" ", "-", ">", " ">>)
    /\ options \in OptionObjects
    /\ pc = "start"
    /\ nodes = <<>>
    /\ edges = <<>>
    /\ svgWidth = 0
    /\ svgHeight = 0
    /\ svgParts = <<>>
    /\ LlmIdle
    /\ ToolIdle
    /\ AgentIdle

SpecOptions == InitOptions /\ [][Next]_vars

\* The six effective values generateDiagram works with.
Effective(o) ==
    [type |-> EffType(o), width |-> EffWidth(o), nodeSpacing |-> EffNodeSpacing(o),
     layerSpacing |-> EffLayerSpacing(o), fontSize |-> EffFontSize(o),
     fontFamily |-> EffFontFamily(o)]

Defaults ==
    [type |-> "pipeline", width |-> 800, nodeSpacing |-> 60, layerSpacing |-> 50,
     fontSize |-> 14, fontFamily |-> "Arial, Helvetica, sans-serif"]

OptionNames == {"type", "width", "nodeSpacing", "layerSpacing", "fontSize", "fontFamily"}

\* C18: an option that is not supplied takes its default (pipeline, 800, 60,
\* 50, 14, the sans-serif stack), and the effective value of an option is
\* the same under every option object that agrees on that one option; the
\* geometry and the document are those of the effective values.
C18_OptionsIndependent ==
    pc = "done" =>
        /\ \A f \in OptionNames :
              /\ options[f] = None => Effective(options)[f] = Defaults[f]
              /\ \A o \in OptionObjects :
                    o[f] = options[f] => Effective(o)[f] = Effective(options)[f]
        /\ nodes = layoutNodes(parseDiagramDescription(desc).nodes,
                               Effective(options).type,
                               [width |-> Effective(options).width * Unit,
                                nodeSpacing |-> Effective(options).nodeSpacing * Unit,
                                layerSpacing |-> Effective(options).layerSpacing * Unit,
                                fontSize |-> Effective(options).fontSize])
        /\ \A k \in DOMAIN svgParts :
              svgParts[k].kind = "node" =>
                  /\ svgParts[k].fontSize = Effective(options).fontSize
                  /\ svgParts[k].fontFamily = Effective(options).fontFamily
        /\ (options.type = None /\ options.nodeSpacing = None /\ Len(nodes) = 2) =>
              nodes[2].x = nodes[1].x + nodes[1].width + 60 * Unit

C18_Witness ==
    /\ pc = "done"
    /\ options.type = None
    /\ options.nodeSpacing = None
    /\ options.layerSpacing = Some(20)
    /\ options.fontSize = Some(20)
    /\ options.width = Some(0)
    /\ Len(nodes) = 2
    /\ nodes[2].x = nodes[1].x + nodes[1].width + 60 * Unit
    /\ svgParts[10].fontSize = 20
    /\ svgParts[10].fontFamily = "Arial, Helvetica, sans-serif"


(***************************************************************************)
(* parseLlmResponse (src/src/prompts.ts).  The response is a sequence of   *)
(* characters, as the descriptions are: the regular expressions and        *)
(* JSON.parse run over the raw text and see the brackets and commas inside *)
(* strings too.  The grave accent U+0060, which a string of this module    *)
(* cannot hold, is written by its code point.                              *)
(***************************************************************************)

MaxItems == 3

NO_ARRAY_MESSAGE == "No JSON array found in LLM response"
NOT_ARRAY_MESSAGE == "LLM response is not an array"
NO_VALID_MESSAGE == "No valid diagram suggestions found in LLM response"
SYNTAX_ERROR == "SyntaxError"

GRAVE == "U+0060"
QUOTE == "\""
BACKSLASH == "\\"

\* The three grave accents of a code fence.
FENCE == <<GRAVE, GRAVE, GRAVE>>

\* s holds w from position i on.
HasAt(s, i, w) ==
    /\ i >= 1
    /\ i + Len(w) - 1 <= Len(s)
    /\ SubSeq(s, i, i + Len(w) - 1) = w

\* s holds "json" from position i on, in any case of the four letters.
HasJsonAt(s, i) ==
    /\ i + 3 <= Len(s)
    /\ s[i] \in {"j", "J"}
    /\ s[i + 1] \in {"s", "S"}
    /\ s[i + 2] \in {"o", "O"}
    /\ s[i + 3] \in {"n", "N"}

\* raw.trim()
TrimResponse(s) == Trim(s)

\* .replace(/^```(?:json)?\s*/i, "")
StripOpeningFence(c) ==
    IF HasAt(c, 1, FENCE)
    THEN LET a == SubSeq(c, 4, Len(c))
             b == IF HasJsonAt(a, 1) THEN SubSeq(a, 5, Len(a)) ELSE a
         IN  TrimStart(b)
    ELSE c

\* .replace(/\s*```$/i, "")
StripClosingFence(c) ==
    IF Len(c) >= 3 /\ HasAt(c, Len(c) - 2, FENCE)
    THEN TrimEnd(SubSeq(c, 1, Len(c) - 3))
    ELSE c

CleanResponse(r) == StripClosingFence(StripOpeningFence(TrimResponse(r)))

RECURSIVE LastIndexOfChar(_, _, _)
\* The last position <= k of s that holds c, or 0.
LastIndexOfChar(s, c, k) ==
    IF k < 1 THEN 0
    ELSE IF s[k] = c THEN k
    ELSE LastIndexOfChar(s, c, k - 1)

\* cleaned.match(/\[[\s\S]*\]/): from the first "[" to the last "]" after
\* it; None is the null of a failed match.
ArrayMatch(c) ==
    LET i == IndexOfChar(c, "[", 1)
        j == LastIndexOfChar(c, "]", Len(c))
    IN  IF i = 0 \/ j < i THEN None ELSE Some(SubSeq(c, i, j))

RECURSIVE SkipWhite(_, _)
\* The first position >= k of s that holds no white space of \s.
SkipWhite(s, k) ==
    IF k <= Len(s) /\ IsWhite(s[k]) THEN SkipWhite(s, k + 1) ELSE k

\* No comma is removed.
KeepTrailingCommas(s) == s

RECURSIVE SkipWhiteBack(_, _)
\* The last position <= k of s that holds no white space of \s, or 0.
SkipWhiteBack(s, k) ==
    IF k >= 1 /\ IsWhite(s[k]) THEN SkipWhiteBack(s, k - 1) ELSE k

\* Position k of s is the comma or the white space of a match of /,\s*]/.
InCommaMatch(s, k) ==
    LET c == SkipWhiteBack(s, k)
        j == SkipWhite(s, k + 1)
    IN  /\ c >= 1
        /\ s[c] = ","
        /\ j <= Len(s)
        /\ s[j] = "]"

RECURSIVE KeepUnmatched(_, _, _)
\* The characters of s from lo to hi that no match of /,\s*]/ removes.
KeepUnmatched(s, lo, hi) ==
    IF lo > hi THEN <<>>
    ELSE IF lo = hi THEN (IF InCommaMatch(s, lo) THEN <<>> ELSE <<s[lo]>>)
    ELSE LET mid == (lo + hi) \div 2
         IN  KeepUnmatched(s, lo, mid) \o KeepUnmatched(s, mid + 1, hi)

\* jsonStr.replace(/,\s*]/g, "]"): every match loses all but its "]".
FixTrailingCommas(s) == KeepUnmatched(s, 1, Len(s))

-----------------------------------------------------------------------------
(* JSON.parse *)

\* The white space of JSON: space, tab, line feed, carriage return.
JsonWhite == {" ", "\t", "\n", "\r"}

Digits == {"0", "1", "2", "3", "4", "5", "6", "7", "8", "9"}

HexDigitValue(c) ==
    CASE c = "0" -> 0 [] c = "1" -> 1 [] c = "2" -> 2 [] c = "3" -> 3
      [] c = "4" -> 4 [] c = "5" -> 5 [] c = "6" -> 6 [] c = "7" -> 7
      [] c = "8" -> 8 [] c = "9" -> 9
      [] c \in {"a", "A"} -> 10 [] c \in {"b", "B"} -> 11
      [] c \in {"c", "C"} -> 12 [] c \in {"d", "D"} -> 13
      [] c \in {"e", "E"} -> 14 [] c \in {"f", "F"} -> 15
      [] OTHER -> 16

IsHexDigit(c) == HexDigitValue(c) < 16

HexDigitNames ==
    <<"0", "1", "2", "3", "4", "5", "6", "7", "8", "9", "A", "B", "C", "D", "E", "F">>

\* The printable characters U+0020 to U+007E in the order of their codes.
PrintableAscii ==
    <<" ", "!", QUOTE, "#", "$", "%", "&", "'", "(", ")", "*", "+", ",", "-", ".", "/",
      "0", "1", "2", "3", "4", "5", "6", "7", "8", "9", ":", ";", "<", "=", ">", "?",
      "@", "A", "B", "C", "D", "E", "F", "G", "H", "I", "J", "K", "L", "M", "N", "O",
      "P", "Q", "R", "S", "T", "U", "V", "W", "X", "Y", "Z", "[", BACKSLASH, "]", "^", "_",
      GRAVE, "a", "b", "c", "d", "e", "f", "g", "h", "i", "j", "k", "l", "m", "n", "o",
      "p", "q", "r", "s", "t", "u", "v", "w", "x", "y", "z", "{", "|", "}", "~">>

\* The character of the code n, as the strings of this module hold it:
\* itself when it can be written, its code point otherwise.
CodeChar(n) ==
    CASE n = 8 -> ""
      [] n = 9 -> "\t"
      [] n = 10 -> "\n"
      [] n = 11 -> ""
      [] n = 12 -> "\f"
      [] n = 13 -> "\r"
      [] n \in 32..126 -> PrintableAscii[n - 31]
      [] n = 160 -> " "
      [] n = 5760 -> " "
      [] OTHER ->
            "U+" \o HexDigitNames[(n \div 4096) + 1]
                 \o HexDigitNames[((n \div 256) % 16) + 1]
                 \o HexDigitNames[((n \div 16) % 16) + 1]
                 \o HexDigitNames[(n % 16) + 1]

\* U+0000 to U+001F, which a JSON string cannot hold unescaped.
ControlChars == {CodeChar(n) : n \in 0..31}

\* A JSON value: its kind, the text of a string or of a number, and the
\* entries of an array or the members of an object in written order.
JVal(k, s, items) == [k |-> k, s |-> s, items |-> items]
JNull == JVal("null", <<>>, <<>>)
JMember(key, value) == [key |-> key, value |-> value]

\* What a step of the parser gives: the value and the position after it.
JOk(v, next) == [ok |-> TRUE, v |-> v, next |-> next]
JFail == [ok |-> FALSE, v |-> JNull, next |-> 0]

RECURSIVE SkipJsonWhite(_, _)
SkipJsonWhite(s, i) ==
    IF i <= Len(s) /\ s[i] \in JsonWhite THEN SkipJsonWhite(s, i + 1) ELSE i

RECURSIVE SkipDigits(_, _)
SkipDigits(s, i) ==
    IF i <= Len(s) /\ s[i] \in Digits THEN SkipDigits(s, i + 1) ELSE i

\* -? (0 | [1-9][0-9]*) (. [0-9]+)? ([eE] [+-]? [0-9]+)?
ParseNumber(s, i) ==
    LET a == IF HasAt(s, i, <<"-">>) THEN i + 1 ELSE i
        b == IF HasAt(s, a, <<"0">>) THEN a + 1 ELSE SkipDigits(s, a)
        hasFrac == HasAt(s, b, <<".">>)
        c == IF hasFrac THEN SkipDigits(s, b + 1) ELSE b
        hasExp == c <= Len(s) /\ s[c] \in {"e", "E"}
        d == IF hasExp /\ c + 1 <= Len(s) /\ s[c + 1] \in {"+", "-"}
             THEN c + 2 ELSE c + 1
        e == IF hasExp THEN SkipDigits(s, d) ELSE c
    IN  IF b = a \/ (hasFrac /\ c = b + 1) \/ (hasExp /\ e = d) THEN JFail
        ELSE JOk(JVal("number", SubSeq(s, i, e - 1), <<>>), e)

\* The character a two-character escape stands for.
EscapeChar(c) ==
    CASE c = "b" -> CodeChar(8)
      [] c = "f" -> "\f"
      [] c = "n" -> "\n"
      [] c = "r" -> "\r"
      [] c = "t" -> "\t"
      [] OTHER -> c

RECURSIVE ParseChars(_, _, _)
\* The characters of a string from position i on, up to its closing quote.
ParseChars(s, i, acc) ==
    IF i > Len(s) THEN JFail
    ELSE IF s[i] = QUOTE THEN JOk(JVal("string", acc, <<>>), i + 1)
    ELSE IF s[i] \in ControlChars THEN JFail
    ELSE IF s[i] # BACKSLASH THEN ParseChars(s, i + 1, Append(acc, s[i]))
    ELSE IF i + 1 > Len(s) THEN JFail
    ELSE IF s[i + 1] \in {QUOTE, BACKSLASH, "/", "b", "f", "n", "r", "t"}
    THEN ParseChars(s, i + 2, Append(acc, EscapeChar(s[i + 1])))
    ELSE IF /\ s[i + 1] = "u"
            /\ i + 5 <= Len(s)
            /\ \A k \in 2..5 : IsHexDigit(s[i + k])
    THEN ParseChars(s, i + 6,
            Append(acc, CodeChar(4096 * HexDigitValue(s[i + 2])
                                 + 256 * HexDigitValue(s[i + 3])
                                 + 16 * HexDigitValue(s[i + 4])
                                 + HexDigitValue(s[i + 5]))))
    ELSE JFail

RECURSIVE ParseValue(_, _)
RECURSIVE ParseElements(_, _, _)
RECURSIVE ParseMembers(_, _, _)

\* The value that starts at position i.
ParseValue(s, i) ==
    IF i > Len(s) THEN JFail
    ELSE IF s[i] = "["
    THEN LET j == SkipJsonWhite(s, i + 1)
         IN  IF HasAt(s, j, <<"]">>) THEN JOk(JVal("array", <<>>, <<>>), j + 1)
             ELSE ParseElements(s, j, <<>>)
    ELSE IF s[i] = "{"
    THEN LET j == SkipJsonWhite(s, i + 1)
         IN  IF HasAt(s, j, <<"}">>) THEN JOk(JVal("object", <<>>, <<>>), j + 1)
             ELSE ParseMembers(s, j, <<>>)
    ELSE IF s[i] = QUOTE THEN ParseChars(s, i + 1, <<>>)
    ELSE IF HasAt(s, i, <<"t", "r", "u", "e">>)
    THEN JOk(JVal("true", <<>>, <<>>), i + 4)
    ELSE IF HasAt(s, i, <<"f", "a", "l", "s", "e">>)
    THEN JOk(JVal("false", <<>>, <<>>), i + 5)
    ELSE IF HasAt(s, i, <<"n", "u", "l", "l">>) THEN JOk(JNull, i + 4)
    ELSE ParseNumber(s, i)

\* The entries of an array from position i on; acc holds the earlier ones.
ParseElements(s, i, acc) ==
    LET r == ParseValue(s, i)
        j == SkipJsonWhite(s, r.next)
    IN  IF ~r.ok THEN JFail
        ELSE IF HasAt(s, j, <<",">>)
        THEN ParseElements(s, SkipJsonWhite(s, j + 1), Append(acc, r.v))
        ELSE IF HasAt(s, j, <<"]">>)
        THEN JOk(JVal("array", <<>>, Append(acc, r.v)), j + 1)
        ELSE JFail

\* The members of an object from position i on; acc holds the earlier ones.
ParseMembers(s, i, acc) ==
    IF ~HasAt(s, i, <<QUOTE>>) THEN JFail
    ELSE LET key == ParseChars(s, i + 1, <<>>)
             colon == SkipJsonWhite(s, key.next)
         IN  IF ~key.ok \/ ~HasAt(s, colon, <<":">>) THEN JFail
             ELSE LET r == ParseValue(s, SkipJsonWhite(s, colon + 1))
                      j == SkipJsonWhite(s, r.next)
                      ms == Append(acc, JMember(key.v.s, r.v))
                  IN  IF ~r.ok THEN JFail
                      ELSE IF HasAt(s, j, <<",">>)
                      THEN ParseMembers(s, SkipJsonWhite(s, j + 1), ms)
                      ELSE IF HasAt(s, j, <<"}">>)
                      THEN JOk(JVal("object", <<>>, ms), j + 1)
                      ELSE JFail

\* JSON.parse(text): Some(the value), or None for a SyntaxError.
JsonParse(s) ==
    LET r == ParseValue(s, SkipJsonWhite(s, 1))
    IN  IF r.ok /\ SkipJsonWhite(s, r.next) = Len(s) + 1 THEN Some(r.v) ELSE None

-----------------------------------------------------------------------------
(* The validation loop *)

RECURSIVE LastMember(_, _, _)
\* The value of the last member of ms up to position k with the key, or None.
LastMember(ms, key, k) ==
    IF k < 1 THEN None
    ELSE IF ms[k].key = key THEN Some(ms[k].value)
    ELSE LastMember(ms, key, k - 1)

\* item[key]: the property of an object; undefined on every other value.
Property(item, key) ==
    IF item.k = "object" THEN LastMember(item.items, key, Len(item.items)) ELSE None

\* The digits of 2^-1075 = 0.2470328...E-323, half of the least double
\* above 0: JSON.parse rounds a number to the nearest double, to 0 when the
\* number is at most this.
HALF_LEAST_DOUBLE_DIGITS ==
    <<"2", "4", "7", "0", "3", "2", "8", "2", "2", "9", "2", "0", "6", "2", "3", "2",
      "7", "2", "0", "8", "8", "2", "8", "4", "3", "9", "6", "4", "3", "4", "1", "1",
      "0", "6", "8", "6", "1", "8", "2", "5", "2", "9", "9", "0", "1", "3", "0", "7",
      "1", "6", "2", "3", "8", "2", "2", "1", "2", "7", "9", "2", "8", "4", "1", "2",
      "5", "0", "3", "3", "7", "7", "5", "3", "6", "3", "5", "1", "0", "4", "3", "7",
      "5", "9", "3", "2", "6", "4", "9", "9", "1", "8", "1", "8", "0", "8", "1", "7",
      "9", "9", "6", "1", "8", "9", "8", "9", "8", "2", "8", "2", "3", "4", "7", "7",
      "2", "2", "8", "5", "8", "8", "6", "5", "4", "6", "3", "3", "2", "8", "3", "5",
      "5", "1", "7", "7", "9", "6", "9", "8", "9", "8", "1", "9", "9", "3", "8", "7",
      "3", "9", "8", "0", "0", "5", "3", "9", "0", "9", "3", "9", "0", "6", "3", "1",
      "5", "0", "3", "5", "6", "5", "9", "5", "1", "5", "5", "7", "0", "2", "2", "6",
      "3", "9", "2", "2", "9", "0", "8", "5", "8", "3", "9", "2", "4", "4", "9", "1",
      "0", "5", "1", "8", "4", "4", "3", "5", "9", "3", "1", "8", "0", "2", "8", "4",
      "9", "9", "3", "6", "5", "3", "6", "1", "5", "2", "5", "0", "0", "3", "1", "9",
      "3", "7", "0", "4", "5", "7", "6", "7", "8", "2", "4", "9", "2", "1", "9", "3",
      "6", "5", "6", "2", "3", "6", "6", "9", "8", "6", "3", "6", "5", "8", "4", "8",
      "0", "7", "5", "7", "0", "0", "1", "5", "8", "5", "7", "6", "9", "2", "6", "9",
      "9", "0", "3", "7", "0", "6", "3", "1", "1", "9", "2", "8", "2", "7", "9", "5",
      "5", "8", "5", "5", "1", "3", "3", "2", "9", "2", "7", "8", "3", "4", "3", "3",
      "8", "4", "0", "9", "3", "5", "1", "9", "7", "8", "0", "1", "5", "5", "3", "1",
      "2", "4", "6", "5", "9", "7", "2", "6", "3", "5", "7", "9", "5", "7", "4", "6",
      "2", "2", "7", "6", "6", "4", "6", "5", "2", "7", "2", "8", "2", "7", "2", "2",
      "0", "0", "5", "6", "3", "7", "4", "0", "0", "6", "4", "8", "5", "4", "9", "9",
      "9", "7", "7", "0", "9", "6", "5", "9", "9", "4", "7", "0", "4", "5", "4", "0",
      "2", "0", "8", "2", "8", "1", "6", "6", "2", "2", "6", "2", "3", "7", "8", "5",
      "7", "3", "9", "3", "4", "5", "0", "7", "3", "6", "3", "3", "9", "0", "0", "7",
      "9", "6", "7", "7", "6", "1", "9", "3", "0", "5", "7", "7", "5", "0", "6", "7",
      "4", "0", "1", "7", "6", "3", "2", "4", "6", "7", "3", "6", "0", "0", "9", "6",
      "8", "9", "5", "1", "3", "4", "0", "5", "3", "5", "5", "3", "7", "4", "5", "8",
      "5", "1", "6", "6", "6", "1", "1", "3", "4", "2", "2", "3", "7", "6", "6", "6",
      "7", "8", "6", "0", "4", "1", "6", "2", "1", "5", "9", "6", "8", "0", "4", "6",
      "1", "9", "1", "4", "4", "6", "7", "2", "9", "1", "8", "4", "0", "3", "0", "0",
      "5", "3", "0", "0", "5", "7", "5", "3", "0", "8", "4", "9", "0", "4", "8", "7",
      "6", "5", "3", "9", "1", "7", "1", "1", "3", "8", "6", "5", "9", "1", "6", "4",
      "6", "2", "3", "9", "5", "2", "4", "9", "1", "2", "6", "2", "3", "6", "5", "3",
      "8", "8", "1", "8", "7", "9", "6", "3", "6", "2", "3", "9", "3", "7", "3", "2",
      "8", "0", "4", "2", "3", "8", "9", "1", "0", "1", "8", "6", "7", "2", "3", "4",
      "8", "4", "9", "7", "6", "6", "8", "2", "3", "5", "0", "8", "9", "8", "6", "3",
      "3", "8", "8", "5", "8", "7", "9", "2", "5", "6", "2", "8", "3", "0", "2", "7",
      "5", "5", "9", "9", "5", "6", "5", "7", "5", "2", "4", "4", "5", "5", "5", "0",
      "7", "2", "5", "5", "1", "8", "9", "3", "1", "3", "6", "9", "0", "8", "3", "6",
      "2", "5", "4", "7", "7", "9", "1", "8", "6", "9", "4", "8", "6", "6", "7", "9",
      "9", "4", "9", "6", "8", "3", "2", "4", "0", "4", "9", "7", "0", "5", "8", "2",
      "1", "0", "2", "8", "5", "1", "3", "1", "8", "5", "4", "5", "1", "3", "9", "6",
      "2", "1", "3", "8", "3", "7", "7", "2", "2", "8", "2", "6", "1", "4", "5", "4",
      "3", "7", "6", "9", "3", "4", "1", "2", "5", "3", "2", "0", "9", "8", "5", "9",
      "1", "3", "2", "7", "6", "6", "7", "2", "3", "6", "3", "2", "8", "1", "2", "5">>

\* The power of ten of the leading digit of 2^-1075, as 0.d1d2... * 10^p.
HALF_LEAST_DOUBLE_POWER == 0 - 323

\* The number of "0" that ds starts with.
LeadingZeros(ds) ==
    LET nz == {k \in DOMAIN ds : ds[k] # "0"}
    IN  IF nz = {} THEN Len(ds) ELSE (CHOOSE k \in nz : \A j \in nz : k <= j) - 1

\* An exponent is an integer of any size: a sign and the decimal digits
\* of its magnitude without leading zeros, <<>> for zero.
DIGIT_CHARS == <<"0", "1", "2", "3", "4", "5", "6", "7", "8", "9">>

StripZeros(ds) == SubSeq(ds, LeadingZeros(ds) + 1, Len(ds))

RECURSIVE Decimal(_)
\* The digits of the natural number n.
Decimal(n) ==
    IF n = 0 THEN <<>> ELSE Decimal(n \div 10) \o <<DIGIT_CHARS[(n % 10) + 1]>>

\* a < b for two magnitudes.
MagLess(a, b) ==
    \/ Len(a) < Len(b)
    \/ /\ Len(a) = Len(b)
       /\ a # b
       /\ LET k == CHOOSE i \in DOMAIN a :
                        a[i] # b[i] /\ \A j \in 1..(i - 1) : a[j] = b[j]
          IN  HexDigitValue(a[k]) < HexDigitValue(b[k])

RECURSIVE AddDigits(_, _, _)
\* a + b + carry, digit by digit from the right.
AddDigits(a, b, carry) ==
    IF a = <<>> /\ b = <<>> THEN (IF carry = 0 THEN <<>> ELSE <<DIGIT_CHARS[carry + 1]>>)
    ELSE LET x == IF a = <<>> THEN 0 ELSE HexDigitValue(a[Len(a)])
             y == IF b = <<>> THEN 0 ELSE HexDigitValue(b[Len(b)])
             t == x + y + carry
         IN  AddDigits(SubSeq(a, 1, Len(a) - 1), SubSeq(b, 1, Len(b) - 1), t \div 10)
                 \o <<DIGIT_CHARS[(t % 10) + 1]>>

RECURSIVE SubDigits(_, _, _)
\* a - b - borrow for a >= b + borrow, digit by digit from the right, with
\* the leading zeros it leaves.
SubDigits(a, b, borrow) ==
    IF a = <<>> THEN <<>>
    ELSE LET x == HexDigitValue(a[Len(a)])
             y == IF b = <<>> THEN 0 ELSE HexDigitValue(b[Len(b)])
             t == x - y - borrow
         IN  SubDigits(SubSeq(a, 1, Len(a) - 1), SubSeq(b, 1, Len(b) - 1),
                       IF t < 0 THEN 1 ELSE 0)
                 \o <<DIGIT_CHARS[((t + 10) % 10) + 1]>>

Signed(neg, mag) == [neg |-> neg /\ mag # <<>>, mag |-> mag]

\* x + y for two signed integers.
SignedSum(x, y) ==
    IF x.neg = y.neg THEN Signed(x.neg, AddDigits(x.mag, y.mag, 0))
    ELSE IF MagLess(x.mag, y.mag)
    THEN Signed(y.neg, StripZeros(SubDigits(y.mag, x.mag, 0)))
    ELSE Signed(x.neg, StripZeros(SubDigits(x.mag, y.mag, 0)))

\* x < y for two signed integers.
SignedLess(x, y) ==
    IF x.neg # y.neg THEN x.neg
    ELSE IF x.neg THEN MagLess(y.mag, x.mag) ELSE MagLess(x.mag, y.mag)

\* The signed integer of an integer of the model.
SignedOf(n) == IF n < 0 THEN Signed(TRUE, Decimal(0 - n)) ELSE Signed(FALSE, Decimal(n))

\* 0.a1a2... <= 0.b1b2... for two sequences of digits.
FractionAtMost(a, b) ==
    LET at(x, k) == IF k <= Len(x) THEN HexDigitValue(x[k]) ELSE 0
        n == Max(Len(a), Len(b))
        diff == {k \in 1..n : at(a, k) # at(b, k)}
    IN  \/ diff = {}
        \/ LET k == CHOOSE i \in diff : \A j \in diff : i <= j
           IN  at(a, k) < at(b, k)

\* The number of the text is 0 or -0 as a double: it is written with no
\* digit other than 0, or it is too small to be anything else.
IsZeroNumber(s) ==
    LET first == IF HasAt(s, 1, <<"-">>) THEN 2 ELSE 1
        es == {k \in DOMAIN s : s[k] \in {"e", "E"}}
        ePos == IF es = {} THEN Len(s) + 1 ELSE CHOOSE k \in es : TRUE
        mantissa == SubSeq(s, first, ePos - 1)
        dots == {k \in DOMAIN mantissa : mantissa[k] = "."}
        dot == IF dots = {} THEN 0 ELSE CHOOSE k \in dots : TRUE
        int == IF dot = 0 THEN mantissa ELSE SubSeq(mantissa, 1, dot - 1)
        frac == IF dot = 0 THEN <<>> ELSE SubSeq(mantissa, dot + 1, Len(mantissa))
        expText == SubSeq(s, ePos + 1, Len(s))
        expNeg == HasAt(expText, 1, <<"-">>)
        expDigits == IF expText # <<>> /\ expText[1] \in {"+", "-"}
                     THEN Tail(expText) ELSE expText
        exp == Signed(expNeg, StripZeros(expDigits))
        digits == int \o frac
        lead == LeadingZeros(digits)
        sig == SubSeq(digits, lead + 1, Len(digits))
        power == SignedSum(exp, SignedOf(Len(int) - lead))
    IN  \/ sig = <<>>
        \/ SignedLess(power, SignedOf(HALF_LEAST_DOUBLE_POWER))
        \/ /\ power = SignedOf(HALF_LEAST_DOUBLE_POWER)
           /\ FractionAtMost(sig, HALF_LEAST_DOUBLE_DIGITS)

\* The item of "item &&": not null, false, 0 or "".
IsTruthyItem(item) ==
    /\ item.k \notin {"null", "false"}
    /\ item.k = "number" => ~IsZeroNumber(item.s)
    /\ item.k = "string" => item.s # <<>>

\* typeof item[key] === "string"
IsStringProperty(item, key) ==
    Property(item, key) # None /\ Property(item, key)[1].k = "string"

KEY_TYPE == <<"t", "y", "p", "e">>
KEY_DESCRIPTION == <<"d", "e", "s", "c", "r", "i", "p", "t", "i", "o", "n">>
KEY_PURPOSE == <<"p", "u", "r", "p", "o", "s", "e">>

PIPELINE == <<"p", "i", "p", "e", "l", "i", "n", "e">>
ARCHITECTURE == <<"a", "r", "c", "h", "i", "t", "e", "c", "t", "u", "r", "e">>
FLOWCHART == <<"f", "l", "o", "w", "c", "h", "a", "r", "t">>

SuggestionTypes == {PIPELINE, ARCHITECTURE, FLOWCHART}

\* The type is not looked up in the list of types.
IsValidItemAnyType(item) ==
    /\ IsTruthyItem(item)
    /\ IsStringProperty(item, KEY_TYPE)
    /\ IsStringProperty(item, KEY_DESCRIPTION)
    /\ IsStringProperty(item, KEY_PURPOSE)

\* The condition of the validation loop.
IsValidItem(item) ==
    /\ IsTruthyItem(item)
    /\ IsStringProperty(item, KEY_TYPE)
    /\ IsStringProperty(item, KEY_DESCRIPTION)
    /\ IsStringProperty(item, KEY_PURPOSE)
    /\ Property(item, KEY_TYPE)[1].s \in SuggestionTypes

\* valid.push({ type, description, purpose })
Suggestion(item) ==
    [type |-> Property(item, KEY_TYPE)[1].s,
     description |-> Property(item, KEY_DESCRIPTION)[1].s,
     purpose |-> Property(item, KEY_PURPOSE)[1].s]

RECURSIVE ValidSuggestions(_)
ValidSuggestions(p) ==
    IF p = <<>> THEN <<>>
    ELSE (IF IsValidItem(p[1]) THEN <<Suggestion(p[1])>> ELSE <<>>)
         \o ValidSuggestions(Tail(p))

Return(v) == [kind |-> "return", value |-> v, message |-> ""]
Throw(m) == [kind |-> "throw", value |-> <<>>, message |-> m]

\* Array.isArray(parsed), the validation loop and what follows it.
Validate(p) ==
    IF p.k # "array" THEN Throw(NOT_ARRAY_MESSAGE)
    ELSE LET valid == ValidSuggestions(p.items)
         IN  IF valid = <<>> THEN Throw(NO_VALID_MESSAGE) ELSE Return(valid)

parseLlmResponse(r) ==
    LET m == ArrayMatch(CleanResponse(r))
    IN  IF m = None THEN Throw(NO_ARRAY_MESSAGE)
        ELSE LET p == JsonParse(FixTrailingCommas(m[1]))
             IN  IF p = None THEN Throw(SYNTAX_ERROR) ELSE Validate(p[1])

-----------------------------------------------------------------------------
(* The responses parseLlmResponse is called with *)

JStr(s) == JVal("string", s, <<>>)
JNum(s) == JVal("number", s, <<>>)
JObject(ms) == JVal("object", <<>>, ms)

\* The characters of a string as JSON.stringify writes them.
RECURSIVE Escaped(_)
Escaped(s) ==
    IF s = <<>> THEN <<>>
    ELSE (CASE s[1] = QUOTE -> <<BACKSLASH, QUOTE>>
            [] s[1] = BACKSLASH -> <<BACKSLASH, BACKSLASH>>
            [] s[1] = "\n" -> <<BACKSLASH, "n">>
            [] s[1] = "\t" -> <<BACKSLASH, "t">>
            [] s[1] = "\r" -> <<BACKSLASH, "r">>
            [] s[1] = "\f" -> <<BACKSLASH, "f">>
            [] OTHER -> <<s[1]>>)
         \o Escaped(Tail(s))

Quoted(s) == <<QUOTE>> \o Escaped(s) \o <<QUOTE>>

\* The text of a value, with a blank after every ":" and ",".
RECURSIVE Stringify(_)
Stringify(v) ==
    CASE v.k \in {"null", "true", "false"} ->
            (CASE v.k = "null" -> <<"n", "u", "l", "l">>
               [] v.k = "true" -> <<"t", "r", "u", "e">>
               [] v.k = "false" -> <<"f", "a", "l", "s", "e">>)
      [] v.k = "number" -> v.s
      [] v.k = "string" -> Quoted(v.s)
      [] v.k = "array" ->
            <<"[">> \o JoinWith([k \in DOMAIN v.items |-> Stringify(v.items[k])],
                                <<",", " ">>) \o <<"]">>
      [] v.k = "object" ->
            <<"{">> \o JoinWith([k \in DOMAIN v.items |->
                                    Quoted(v.items[k].key) \o <<":", " ">>
                                        \o Stringify(v.items[k].value)],
                                <<",", " ">>) \o <<"}">>

\* An entry of a response: the value, and the text it is written as.
WrittenAs(v) == [text |-> Stringify(v), value |-> v]

ValidArchitectureExtra ==
    WrittenAs(JObject(<<JMember(KEY_TYPE, JStr(ARCHITECTURE)),
                      JMember(KEY_DESCRIPTION, JStr(<<"c">>)),
                      JMember(KEY_PURPOSE, JStr(<<"s">>)),
                      JMember(<<"e", "x", "t", "r", "a">>, JVal("true", <<>>, <<>>))>>))
ValidFlowchartCommaBracket ==
    WrittenAs(JObject(<<JMember(KEY_TYPE, JStr(FLOWCHART)),
                      JMember(KEY_DESCRIPTION, JStr(<<"e", " ", "[", "x", ",", " ", "]">>)),
                      JMember(KEY_PURPOSE, JStr(<<"r">>))>>))
\* {"purpose":"q\"r","type":"pipeline","description":"a\nb"}
ValidPipelineEscaped ==
    [text |-> <<"{">> \o <<QUOTE>> \o KEY_PURPOSE \o <<QUOTE, ":">>
                  \o <<QUOTE, "q", BACKSLASH, QUOTE, "r", QUOTE, ",">>
                  \o <<QUOTE>> \o KEY_TYPE \o <<QUOTE, ":">>
                  \o <<QUOTE, "p", "i", "p", "e", BACKSLASH, "u", "0", "0", "6", "c",
                       "i", "n", "e", QUOTE, ",">>
                  \o <<QUOTE>> \o KEY_DESCRIPTION \o <<QUOTE, ":">>
                  \o <<QUOTE, "a", BACKSLASH, "n", "b", QUOTE>> \o <<"}">>,
     value |-> JObject(<<JMember(KEY_PURPOSE, JStr(<<"q", QUOTE, "r">>)),
                         JMember(KEY_TYPE, JStr(PIPELINE)),
                         JMember(KEY_DESCRIPTION, JStr(<<"a", "\n", "b">>))>>)]
InvalidType ==
    WrittenAs(JObject(<<JMember(KEY_TYPE, JStr(<<"r", "a", "d", "i", "a", "l">>)),
                      JMember(KEY_DESCRIPTION, JStr(<<"c">>)),
                      JMember(KEY_PURPOSE, JStr(<<"s">>))>>))
NumberDescription ==
    WrittenAs(JObject(<<JMember(KEY_TYPE, JStr(FLOWCHART)),
                      JMember(KEY_DESCRIPTION, JNum(<<"7">>)),
                      JMember(KEY_PURPOSE, JNull)>>))
NullEntry == WrittenAs(JNull)

ItemPool ==
    {ValidArchitectureExtra, ValidFlowchartCommaBracket, ValidPipelineEscaped,
     InvalidType, NumberDescription, NullEntry}

\* Numbers as entries: one that JSON.parse rounds to 0, and 0 itself.
TinyNumberEntry == WrittenAs(JNum(<<"1", "e", "-", "4", "0", "0">>))
ZeroEntry == WrittenAs(JNum(<<"0", ".", "0">>))
NumberEntries == {TinyNumberEntry, ZeroEntry}

\* The entries of a response: any of the pool, or a number and then at
\* most one of the pool.
ItemLists ==
    UNION {[1..n -> ItemPool] : n \in 0..MaxItems}
    \cup {<<e>> \o rest : e \in NumberEntries,
                          rest \in UNION {[1..n -> ItemPool] : n \in 0..1}}

\* What comes before and after the array in a response.
LOWER_JSON == <<"j", "s", "o", "n">>
MIXED_JSON == <<"J", "s", "O", "n">>
NoWrapping == [prefix |-> <<>>, suffix |-> <<>>]
PlainFence == [prefix |-> FENCE \o <<"\n">>, suffix |-> <<"\n">> \o FENCE]
JsonFence ==
    [prefix |-> <<" ">> \o FENCE \o LOWER_JSON \o <<"\r", "\n">>,
     suffix |-> <<"\n">> \o FENCE \o <<"\n">>]
MixedCaseFence == [prefix |-> FENCE \o MIXED_JSON, suffix |-> FENCE]
JsonlFence ==
    [prefix |-> FENCE \o LOWER_JSON \o <<"l", "\n">>, suffix |-> <<"\t">> \o FENCE]
ProsePrefix == [prefix |-> <<"H", "e", "r", "e", ":", " ">>, suffix |-> <<>>]
BracketProse ==
    [prefix |-> <<"A", "s", " ", "i", "n", " ", "[", "1", "]", ":", " ">>,
     suffix |-> <<>>]

Fences == {NoWrapping, PlainFence, JsonFence, MixedCaseFence, JsonlFence}
Wrappings == Fences \union {ProsePrefix, BracketProse}

\* Bodies in which no "[" is followed by a "]".
NoArrayBodies ==
    {<<>>,
     <<"t", "e", "x", "t">>,
     <<"]", " ", "[">>,
     <<"[", "t", "e", "x", "t">>,
     Stringify(JObject(<<JMember(KEY_TYPE, JStr(PIPELINE))>>))}

\* The text of a JSON array, with or without a comma before its "]".
ArrayText(items, comma) ==
    <<"[">> \o JoinWith([k \in DOMAIN items |-> items[k].text], <<",", " ">>)
        \o (IF comma THEN <<",", "\n">> ELSE <<>>) \o <<"]">>

\* No call of generateDiagram is under way.
SvgIdle ==
    /\ stages = <<>>
    /\ desc = <<>>
    /\ options = NoOptions
    /\ pc = "idle"
    /\ nodes = <<>>
    /\ edges = <<>>
    /\ svgWidth = 0
    /\ svgHeight = 0
    /\ svgParts = <<>>

InitLlm ==
    /\ SvgIdle
    /\ ToolIdle
    /\ AgentIdle
    /\ \E w \in Wrappings :
          \/ \E items \in ItemLists, comma \in BOOLEAN :
                /\ llmIn = [array |-> TRUE, items |-> items, comma |-> comma,
                            wrapping |-> w]
                /\ raw = w.prefix \o ArrayText(items, comma) \o w.suffix
          \/ \E body \in NoArrayBodies :
                /\ llmIn = [array |-> FALSE, items |-> <<>>, comma |-> FALSE,
                            wrapping |-> w]
                /\ raw = w.prefix \o body \o w.suffix
    /\ cleaned = <<>>
    /\ jsonStr = <<>>
    /\ parsed = None
    /\ llmPc = "start"
    /\ llmResult = <<>>

\* let cleaned = raw.trim(), then the two replacements of the fences
Clean ==
    /\ llmPc = "start"
    /\ cleaned' = CleanResponse(raw)
    /\ llmPc' = "cleaned"
    /\ UNCHANGED <<llmIn, raw, jsonStr, parsed, llmResult>>
    /\ UNCHANGED <<svgVars, toolVars, agentVars>>

\* The match, its throw, and the replacement of the trailing commas.
Match ==
    /\ llmPc = "cleaned"
    /\ LET m == ArrayMatch(cleaned)
       IN  IF m = None
           THEN /\ llmResult' = Throw(NO_ARRAY_MESSAGE)
                /\ llmPc' = "threw"
                /\ UNCHANGED jsonStr
           ELSE /\ jsonStr' = FixTrailingCommas(m[1])
                /\ llmPc' = "matched"
                /\ UNCHANGED llmResult
    /\ UNCHANGED <<llmIn, raw, cleaned, parsed>>
    /\ UNCHANGED <<svgVars, toolVars, agentVars>>

\* const parsed = JSON.parse(jsonStr), which throws a SyntaxError
ParseJson ==
    /\ llmPc = "matched"
    /\ LET p == JsonParse(jsonStr)
       IN  IF p = None
           THEN /\ llmResult' = Throw(SYNTAX_ERROR)
                /\ llmPc' = "threw"
                /\ UNCHANGED parsed
           ELSE /\ parsed' = p
                /\ llmPc' = "parsed"
                /\ UNCHANGED llmResult
    /\ UNCHANGED <<llmIn, raw, cleaned, jsonStr>>
    /\ UNCHANGED <<svgVars, toolVars, agentVars>>

\* The test of Array.isArray and the validation loop, then the throw or
\* the return.
ValidateItems ==
    /\ llmPc = "parsed"
    /\ llmResult' = Validate(parsed[1])
    /\ llmPc' = IF Validate(parsed[1]).kind = "throw" THEN "threw" ELSE "returned"
    /\ UNCHANGED <<llmIn, raw, cleaned, jsonStr, parsed>>
    /\ UNCHANGED <<svgVars, toolVars, agentVars>>

NextLlm == Clean \/ Match \/ ParseJson \/ ValidateItems

SpecLlm == InitLlm /\ [][NextLlm]_vars

\* The call is over.
LlmOver == llmPc \in {"returned", "threw"}

\* The value of the field of an entry: that of the last member of the
\* object with that key.
FieldOf(e, key) ==
    LET ks == {k \in DOMAIN e.items : e.items[k].key = key}
    IN  IF e.k # "object" \/ ks = {} THEN None
        ELSE Some(e.items[CHOOSE k \in ks : \A m \in ks : m <= k].value)

EntryFields == {KEY_TYPE, KEY_DESCRIPTION, KEY_PURPOSE}

\* The entry, as the claim words a valid one: type, description and
\* purpose are strings and the type is one of the three.
WellFormedEntry(e) ==
    /\ \A f \in EntryFields : FieldOf(e, f) # None /\ FieldOf(e, f)[1].k = "string"
    /\ FieldOf(e, KEY_TYPE)[1].s \in {PIPELINE, ARCHITECTURE, FLOWCHART}

\* The positions of the well-formed entries of p, in order.
RECURSIVE GoodPositions(_, _)
GoodPositions(p, k) ==
    IF k > Len(p) THEN <<>>
    ELSE (IF WellFormedEntry(p[k]) THEN <<k>> ELSE <<>>) \o GoodPositions(p, k + 1)

\* The text holds no comma that only white space parts from a "]".
PlainText(t) ==
    \A k \in DOMAIN t :
        t[k] = "," =>
            \A j \in (k + 1)..Len(t) :
                t[j] = "]" => \E m \in (k + 1)..(j - 1) : t[m] \notin WhiteSpace

\* The array of the response is the first thing with a bracket in it.
ArrayFirst == llmIn.array /\ llmIn.wrapping # BracketProse

\* C19: once the array is recovered, the call returns the well-formed
\* entries of that array, in their order, each with its type, description
\* and purpose and no other field; the other entries are skipped; with no
\* well-formed entry the call throws "No valid diagram suggestions found in
\* LLM response".  The recovered array has the entries the response was
\* written with.
C19_ValidEntriesReturned ==
    LlmOver =>
        /\ ArrayFirst =>
              /\ parsed # None
              /\ parsed[1].k = "array"
              /\ Len(parsed[1].items) = Len(llmIn.items)
              /\ \A k \in DOMAIN llmIn.items :
                    PlainText(llmIn.items[k].text) =>
                        parsed[1].items[k] = llmIn.items[k].value
        /\ parsed # None =>
              LET p == parsed[1].items
                  good == GoodPositions(p, 1)
              IN  IF good = <<>>
                  THEN /\ llmPc = "threw"
                       /\ llmResult.kind = "throw"
                       /\ llmResult.message = NO_VALID_MESSAGE
                  ELSE /\ llmPc = "returned"
                       /\ llmResult.kind = "return"
                       /\ Len(llmResult.value) = Len(good)
                       /\ \A j \in DOMAIN good :
                             LET r == llmResult.value[j]
                                 e == p[good[j]]
                             IN  /\ DOMAIN r = {"type", "description", "purpose"}
                                 /\ r.type = FieldOf(e, KEY_TYPE)[1].s
                                 /\ r.description = FieldOf(e, KEY_DESCRIPTION)[1].s
                                 /\ r.purpose = FieldOf(e, KEY_PURPOSE)[1].s

\* A valid entry with a fourth field, an invalid entry and a valid entry
\* written with escapes were parsed, and the two valid ones came back in
\* that order.
C19_Witness ==
    /\ llmPc = "returned"
    /\ parsed[1].items =
          <<ValidArchitectureExtra.value, InvalidType.value, ValidPipelineEscaped.value>>
    /\ Len(llmResult.value) = 2
    /\ llmResult.value[1].type = ARCHITECTURE
    /\ llmResult.value[2] =
          [type |-> PIPELINE, description |-> <<"a", "\n", "b">>,
           purpose |-> <<"q", QUOTE, "r">>]

\* The response as the bare array of its entries.
BareArray == ArrayText(llmIn.items, FALSE)

\* The response is the array alone or the array in a code fence.
FencedOrBare == llmIn.array /\ llmIn.wrapping \in Fences

\* C20: a JSON array in a code fence, with or without json after the
\* fence, and with or without a comma before its "]", gives what the bare
\* array gives; a response in which no "[" is followed by a "]" throws
\* "No JSON array found in LLM response" and returns no suggestion.
C20_NoiseTolerated ==
    LlmOver =>
        /\ FencedOrBare => llmResult = parseLlmResponse(BareArray)
        /\ FencedOrBare =>
              \/ llmResult.kind = "return"
              \/ llmResult.message = NO_VALID_MESSAGE
        /\ (~llmIn.array /\ llmIn.wrapping # BracketProse) =>
              /\ llmPc = "threw"
              /\ llmResult.kind = "throw"
              /\ llmResult.message = NO_ARRAY_MESSAGE
              /\ llmResult.value = <<>>

\* A fenced array with json after the fence and a trailing comma returned
\* its two suggestions.
C20_Witness ==
    /\ llmPc = "returned"
    /\ llmIn.array
    /\ llmIn.comma
    /\ llmIn.wrapping = JsonFence
    /\ Len(llmIn.items) = 2
    /\ Len(llmResult.value) = 2



-----------------------------------------------------------------------------
(* C23: edge attachment and layout orientation *)

\* The first node that carries the id.
Holder(id) ==
    nodes[CHOOSE k \in DOMAIN nodes :
              nodes[k].id = id /\ \A m \in 1..(k - 1) : nodes[m].id # id]

\* C23: every edge is drawn as one line with marker-end url(#arrowhead);
\* when the style is architecture the nodes are stacked downwards and the
\* line runs from the bottom-centre of its source to the top-centre of its
\* target, and for every other style the nodes are laid out rightwards and
\* the line runs from the right-middle of its source to the left-middle of
\* its target.
C23_EdgeOrientation ==
    pc = "done" =>
        /\ IF options.type = Some("architecture") THEN YAccumulates ELSE XAccumulates
        /\ \A k \in DOMAIN edges :
              LET line == svgParts[7 + k]
                  s == Holder(edges[k].from)
                  t == Holder(edges[k].to)
              IN  /\ line.kind = "line"
                  /\ line.marker = "url(#arrowhead)"
                  /\ IF options.type = Some("architecture")
                     THEN /\ 2 * line.x1 = 2 * s.x + s.width
                          /\ line.y1 = s.y + s.height
                          /\ 2 * line.x2 = 2 * t.x + t.width
                          /\ line.y2 = t.y
                     ELSE /\ line.x1 = s.x + s.width
                          /\ 2 * line.y1 = 2 * s.y + s.height
                          /\ line.x2 = t.x
                          /\ 2 * line.y2 = 2 * t.y + t.height

\* A vertical diagram of three nodes of different heights was drawn with
\* its two edges.
C23_Witness ==
    /\ pc = "done"
    /\ options.type = Some("architecture")
    /\ Len(nodes) = 3
    /\ Len(edges) = 2
    /\ nodes[1].height # nodes[2].height
    /\ svgParts[8].kind = "line"
    /\ svgParts[8].y1 = nodes[1].y + nodes[1].height
    /\ svgParts[8].y2 = nodes[2].y


-----------------------------------------------------------------------------
(* C24: node sizing *)

\* The font size of the call: the option, or 14.
FontSizeAsked == IF options.fontSize = None THEN 14 ELSE options.fontSize[1]

RECURSIVE SumLen(_)
SumLen(xs) == IF xs = <<>> THEN 0 ELSE Len(Head(xs)) + SumLen(Tail(xs))

\* The length of the sub-items joined by ", ".
JoinedLength(xs) == IF xs = <<>> THEN 0 ELSE SumLen(xs) + 2 * (Len(xs) - 1)

\* fontSize * 0.6 per character, in hundredths.
LabelTextWidth(n) == Len(n.label[1]) * FontSizeAsked * 60

\* 0.8 of fontSize * 0.6 per character, in hundredths; 0 without sub-items.
SubItemsWidth(n) ==
    IF n.subComponents = None THEN 0
    ELSE JoinedLength(n.subComponents[1]) * FontSizeAsked * 48

Largest(S) == CHOOSE x \in S : \A y \in S : y <= x

\* C24: after layout, in every style, every node has width
\* max(100, label length * fontSize * 0.6 + 30, joined sub-items length *
\* fontSize * 0.6 * 0.8 + 30) and height 60 with sub-items and 40 without,
\* a decision node has the larger of that width and 120 and height 50, so
\* widths are at least 100 and heights are 40, 50 or 60; the positions are
\* computed from these sizes.
C24_Sizing ==
    LaidOut =>
        /\ \A k \in DOMAIN nodes :
              LET n == nodes[k]
                  w == Largest({100 * Unit, LabelTextWidth(n) + 30 * Unit,
                                SubItemsWidth(n) + 30 * Unit})
              IN  /\ n.width = IF n.type = "decision"
                               THEN Largest({w, 120 * Unit}) ELSE w
                  /\ n.height = IF n.type = "decision" THEN 50 * Unit
                                ELSE IF n.subComponents = None THEN 40 * Unit
                                ELSE 60 * Unit
                  /\ n.width >= 100 * Unit
                  /\ n.height \in {40 * Unit, 50 * Unit, 60 * Unit}
        /\ IF options.type = Some("architecture")
           THEN YAccumulates /\ CentredOnWidth
           ELSE XAccumulates /\ SharedCentreLine

\* A node whose sub-items set its width, a decision node of width 120 and a
\* node whose label sets its width were laid out.
C24_Witness ==
    /\ pc = "done"
    /\ \E k \in DOMAIN nodes :
          /\ nodes[k].subComponents # None
          /\ nodes[k].width = SubItemsWidth(nodes[k]) + 30 * Unit
          /\ nodes[k].width > LabelTextWidth(nodes[k]) + 30 * Unit
          /\ nodes[k].height = 60 * Unit
    /\ \E k \in DOMAIN nodes :
          /\ nodes[k].type = "decision"
          /\ nodes[k].width = 120 * Unit
          /\ nodes[k].height = 50 * Unit
    /\ \E k \in DOMAIN nodes :
          /\ nodes[k].width = LabelTextWidth(nodes[k]) + 30 * Unit
          /\ nodes[k].width > 100 * Unit


-----------------------------------------------------------------------------
(* C25: canvas size *)

\* The right edges and the bottom edges of the nodes.
RightEdges == {nodes[k].x + nodes[k].width : k \in DOMAIN nodes}
BottomEdges == {nodes[k].y + nodes[k].height : k \in DOMAIN nodes}

\* C25: the width of the document is max(200, largest x + width) + 40 and
\* its height is max(100, largest y + height) + 40, so the canvas is at
\* least 240 by 140 and the right and bottom edges of every node are at
\* least 40 inside it.
C25_CanvasSize ==
    pc = "done" =>
        /\ svgWidth = Largest(RightEdges \cup {200 * Unit}) + 40 * Unit
        /\ svgHeight = Largest(BottomEdges \cup {100 * Unit}) + 40 * Unit
        /\ svgParts[1].width = svgWidth
        /\ svgParts[1].height = svgHeight
        /\ svgWidth >= 240 * Unit
        /\ svgHeight >= 140 * Unit
        /\ \A k \in DOMAIN nodes :
              /\ nodes[k].x + nodes[k].width + 40 * Unit <= svgWidth
              /\ nodes[k].y + nodes[k].height + 40 * Unit <= svgHeight

\* A vertical diagram whose last node sets the height of the canvas and
\* whose widest node sets its width was drawn.
C25_Witness ==
    /\ pc = "done"
    /\ options.type = Some("architecture")
    /\ Len(nodes) = 3
    /\ svgHeight = nodes[3].y + nodes[3].height + 40 * Unit
    /\ svgHeight > 140 * Unit
    /\ svgWidth > 240 * Unit
    /\ \E k \in DOMAIN nodes : svgWidth = nodes[k].x + nodes[k].width + 40 * Unit


-----------------------------------------------------------------------------
(* C26: the chain of edges *)

MaxChainStages == 5

\* A branch group of three pairs.
TripleBranchStage ==
    <<"y", ":", "c", ",", "n", ":", "d", ",", "m", ":", "e">>

ChainStagePool == {PlainStage, TripleBranchStage, BadBranchStage}

\* Descriptions that mix plain stages and branch groups.
InitChain ==
    /\ stages \in UNION {[1..n -> ChainStagePool] : n \in 0..MaxChainStages}
    /\ desc = JoinWith(stages, <<"-", ">">>)
    /\ options = NoOptions
    /\ pc = "start"
    /\ nodes = <<>>
    /\ edges = <<>>
    /\ svgWidth = 0
    /\ svgHeight = 0
    /\ svgParts = <<>>
    /\ LlmIdle
    /\ ToolIdle
    /\ AgentIdle

SpecChain == InitChain /\ [][Next]_vars

\* C26: every node produced by a stage other than the first is the target
\* of at least one edge, whatever the mix of plain, sub-component and
\* branch-group stages.
C26_ChainNeverBroken ==
    Parsed =>
        LET st == Stage
        IN  \A k \in DOMAIN nodes :
                k > NodesOf(st[1]) =>
                    \E e \in DOMAIN edges : edges[e].to = nodes[k].id


-----------------------------------------------------------------------------
(***************************************************************************)
(* The generate_svg tool (src/src/agent.ts, createDescribeTools).  The     *)
(* input is the text execute is called with, a character sequence, and     *)
(* JSON.parse reads it as it reads the array of parseLlmResponse.          *)
(***************************************************************************)

MaxToolStages == 2

\* The descriptions the inputs are written with.
ToolDescriptions ==
    {JoinWith(st, <<"-", ">">>) :
        st \in UNION {[1..n -> StagePool] : n \in 0..MaxToolStages}}

\* The members description and type of an input: absent, or a value.
ToolTypes == {None, Some(JStr(ARCHITECTURE)), Some(JStr(<<>>))}

\* The text of an object with the two members, those that are given.
ToolObject(d, t) ==
    Stringify(JObject(
        (IF d = None THEN <<>> ELSE <<JMember(KEY_DESCRIPTION, d[1])>>)
        \o (IF t = None THEN <<>> ELSE <<JMember(KEY_TYPE, t[1])>>)))

\* Texts that are not JSON: nothing, an unquoted key, a comma before "}".
MalformedInputs ==
    {<<>>,
     <<"{", "d", ":", "1", "}">>,
     <<"{", QUOTE, "d", QUOTE, ":", "1", ",", "}">>,
     <<"a", " ", "-", ">", " ", "b">>}

\* JSON that is no object: null, a number, a string, an array.
NonObjectInputs ==
    {Stringify(JNull), <<"7">>, Quoted(<<"a", "-", ">", "b">>),
     Stringify(JVal("array", <<>>, <<JStr(<<"a">>)>>))}

ToolInputs ==
    MalformedInputs
    \cup NonObjectInputs
    \cup {ToolObject(d, t) : d \in {None, Some(JNum(<<"7">>))}, t \in ToolTypes}
    \cup {ToolObject(Some(JStr(d)), t) : d \in ToolDescriptions, t \in ToolTypes}

\* The string execute resolves to, by its parts.
SvgGenerated(n, m, d) ==
    [head |-> "SVG generated: ", nodes |-> n, edges |-> m, description |-> d,
     message |-> ""]
ErrorReturned(msg) ==
    [head |-> "Error: ", nodes |-> 0, edges |-> 0, description |-> <<>>,
     message |-> msg]

\* generateDiagram(description, ...) throws: description is not a string
\* (description.split is not a function), or a label is undefined.
GenerateDiagramThrows(d) ==
    \/ d = None
    \/ d[1].k # "string"
    \/ SizingThrows(parseDiagramDescription(d[1].s).nodes)

\* execute of generate_svg: the try block and its catch.
generateSvgExecute(input) ==
    LET p == JsonParse(input)
    IN  IF p = None THEN ErrorReturned("SyntaxError")
        ELSE IF p[1].k = "null" THEN ErrorReturned("TypeError")
        ELSE LET d == Property(p[1], KEY_DESCRIPTION)
             IN  IF GenerateDiagramThrows(d) THEN ErrorReturned("TypeError")
                 ELSE LET g == parseDiagramDescription(d[1].s)
                      IN  SvgGenerated(Len(g.nodes), Len(g.edges), d[1].s)

InitTool ==
    /\ SvgIdle
    /\ LlmIdle
    /\ AgentIdle
    /\ toolInput \in ToolInputs
    /\ toolPc = "called"
    /\ toolOutput = <<>>

\* The whole of execute: it awaits nothing.
ExecuteGenerateSvg ==
    /\ toolPc = "called"
    /\ toolOutput' = generateSvgExecute(toolInput)
    /\ toolPc' = "resolved"
    /\ UNCHANGED toolInput
    /\ UNCHANGED <<svgVars, llmVars, agentVars>>

NextTool == ExecuteGenerateSvg

SpecTool == InitTool /\ [][NextTool]_vars

\* The input was written as an object with the description d, a string.
WrittenWith(d) == \E t \in ToolTypes : toolInput = ToolObject(Some(JStr(d)), t)

\* C22: the generate_svg tool never throws; for valid JSON with a
\* description it returns the summary with the node count and the edge
\* count of the diagram of that description and the raw description, and
\* for every other input a string that starts with "Error:".
C22_ToolNeverThrows ==
    toolPc # "rejected"
    /\ (toolPc = "resolved" =>
          IF \E d \in ToolDescriptions : WrittenWith(d)
          THEN \A d \in ToolDescriptions :
                  WrittenWith(d) =>
                      LET g == parseDiagramDescription(d)
                      IN  /\ toolOutput.head = "SVG generated: "
                          /\ toolOutput.nodes = Len(g.nodes)
                          /\ toolOutput.edges = Len(g.edges)
                          /\ toolOutput.description = d
          ELSE toolOutput.head = "Error: ")


-----------------------------------------------------------------------------
(***************************************************************************)
(* parseReActResponse and runAgent (src/src/agent.ts).  A text is a        *)
(* sequence of tokens: the markers of the ReAct format, words, and the     *)
(* characters of white space one by one.                                   *)
(***************************************************************************)

MaxAgentSteps == 3

DEFAULT_MAX_STEPS == 8

THOUGHT_TAG == "Thought:"
ACTION_TAG == "Action:"
ACTION_INPUT_TAG == "Action Input:"
FINAL_ANSWER_TAG == "Final Answer:"
OBSERVATION_TAG == "Observation:"
NL == "\n"
SP == " "

MAX_STEPS_ANSWER == <<"Agent reached maximum steps. Partial results in steps above.">>
REMINDER == <<"Use a tool or provide Final Answer.">>

\* The token is a character that String.prototype.trim removes.
IsBlankToken(t) == IsWhite(t)

RECURSIVE TrimTextStart(_)
TrimTextStart(s) ==
    IF s # <<>> /\ IsBlankToken(s[1]) THEN TrimTextStart(Tail(s)) ELSE s

RECURSIVE TrimTextEnd(_)
TrimTextEnd(s) ==
    IF s # <<>> /\ IsBlankToken(s[Len(s)])
    THEN TrimTextEnd(SubSeq(s, 1, Len(s) - 1))
    ELSE s

\* String.prototype.trim on a token text
TrimText(s) == TrimTextEnd(TrimTextStart(s))

RECURSIVE IndexOfToken(_, _, _)
\* The first position from k on where s holds the token t, or 0.
IndexOfToken(s, t, k) ==
    IF k > Len(s) THEN 0
    ELSE IF s[k] = t THEN k
    ELSE IndexOfToken(s, t, k + 1)

RECURSIVE SplitLines(_)
\* text.split("\n")
SplitLines(s) ==
    LET k == IndexOfToken(s, NL, 1)
    IN  IF k = 0 THEN <<s>>
        ELSE <<SubSeq(s, 1, k - 1)>> \o SplitLines(SubSeq(s, k + 1, Len(s)))

RECURSIVE JoinLines(_)
\* lines.join("\n")
JoinLines(ls) ==
    IF ls = <<>> THEN <<>>
    ELSE IF Len(ls) = 1 THEN ls[1]
    ELSE ls[1] \o <<NL>> \o JoinLines(Tail(ls))

\* trimmed.startsWith(marker)
LineStartsWith(trimmed, marker) == trimmed # <<>> /\ trimmed[1] = marker

\* The test that ends the lines of an action input (lines 60-61).
EndsInput(line) ==
    LET nt == TrimText(line)
    IN  \/ LineStartsWith(nt, THOUGHT_TAG)
        \/ LineStartsWith(nt, ACTION_TAG)
        \/ LineStartsWith(nt, FINAL_ANSWER_TAG)
        \/ LineStartsWith(nt, OBSERVATION_TAG)

RECURSIVE InputLines(_, _)
\* The lines from j on that the inner loop pushes on inputLines.
InputLines(lines, j) ==
    IF j > Len(lines) \/ EndsInput(lines[j]) THEN <<>>
    ELSE <<lines[j]>> \o InputLines(lines, j + 1)

RECURSIVE ReActLoop(_, _, _, _)
\* The loop over the lines, from line i on; acc holds thought, action,
\* actionInput and finalAnswer.
ReActLoop(text, lines, i, acc) ==
    IF i > Len(lines) THEN acc
    ELSE LET trimmed == TrimText(lines[i])
         IN  IF LineStartsWith(trimmed, THOUGHT_TAG)
             THEN ReActLoop(text, lines, i + 1,
                            [acc EXCEPT !.thought = TrimText(Tail(trimmed))])
             ELSE IF LineStartsWith(trimmed, ACTION_TAG)
             THEN ReActLoop(text, lines, i + 1,
                            [acc EXCEPT !.action = TrimText(Tail(trimmed))])
             ELSE IF LineStartsWith(trimmed, ACTION_INPUT_TAG)
             THEN ReActLoop(text, lines, i + 1,
                            [acc EXCEPT !.actionInput =
                                TrimText(JoinLines(<<TrimText(Tail(trimmed))>>
                                                   \o InputLines(lines, i + 1)))])
             ELSE IF LineStartsWith(trimmed, FINAL_ANSWER_TAG)
             THEN [acc EXCEPT !.finalAnswer =
                      TrimText(SubSeq(text, IndexOfToken(text, FINAL_ANSWER_TAG, 1) + 1,
                                      Len(text)))]
             ELSE ReActLoop(text, lines, i + 1, acc)

\* value || undefined
OrUndefined(s) == IF s = <<>> THEN None ELSE Some(s)

parseReActResponse(text) ==
    LET r == ReActLoop(text, SplitLines(text), 1,
                       [thought |-> <<>>, action |-> <<>>, actionInput |-> <<>>,
                        finalAnswer |-> <<>>])
    IN  [thought |-> r.thought, action |-> OrUndefined(r.action),
         actionInput |-> OrUndefined(r.actionInput),
         finalAnswer |-> OrUndefined(r.finalAnswer)]

\* The replies of the model.
ReplyAction ==
    <<THOUGHT_TAG, SP, "think", NL, ACTION_TAG, SP, "generate_svg", NL,
      ACTION_INPUT_TAG, SP, "in">>
ReplyActionLines ==
    <<"\t", THOUGHT_TAG, "think", SP, "\r", NL, ACTION_TAG, "suggest_diagrams", "\r", NL,
      ACTION_INPUT_TAG, "\t", "in", NL, SP, "more", "\r", NL, OBSERVATION_TAG, "seen">>
ReplyUnknownTool == <<THOUGHT_TAG, SP, "think", NL, ACTION_TAG, SP, "no_such_tool">>
ReplyNeither == <<THOUGHT_TAG, SP, "think">>
ReplyMidLine == <<THOUGHT_TAG, SP, "the", SP, FINAL_ANSWER_TAG, SP, "comes">>
ReplyFinal == <<THOUGHT_TAG, SP, "think", NL, FINAL_ANSWER_TAG, SP, "42", NL, "more">>
ReplyBoth ==
    <<THOUGHT_TAG, SP, "think", NL, ACTION_TAG, SP, "generate_svg", NL,
      ACTION_INPUT_TAG, SP, "in", NL, SP, FINAL_ANSWER_TAG, SP, "43">>
ReplyEmptyFinal == <<ACTION_TAG, SP, "refine_description", NL, FINAL_ANSWER_TAG, SP>>
ReplyTwoFinals ==
    <<THOUGHT_TAG, SP, "the", SP, FINAL_ANSWER_TAG, SP, "near", NL,
      FINAL_ANSWER_TAG, SP, "42">>

ReplyBareFinal ==
    <<THOUGHT_TAG, SP, "a", SP, FINAL_ANSWER_TAG, SP, "b", NL, FINAL_ANSWER_TAG>>

ReplyPool ==
    {ReplyAction, ReplyActionLines, ReplyUnknownTool, ReplyNeither, ReplyMidLine,
     ReplyFinal, ReplyBoth, ReplyEmptyFinal, ReplyTwoFinals, ReplyBareFinal}

\* const parsed = parseReActResponse(response.text), for every reply.
ParsedReply == [text \in ReplyPool |-> parseReActResponse(text)]

\* What a call of tool.execute comes to: a string, or a thrown value.  A
\* thrown value has its type: "string", with the string as text;
\* "undefined" or "null"; for an error of any class the name of the
\* error (Error, TypeError, SyntaxError, ...), with its message as text.
Resolved(text) == [kind |-> "resolved", ty |-> "string", text |-> text]
Thrown(ty, text) == [kind |-> "thrown", ty |-> ty, text |-> text]

\* The types of the thrown values that are no errors.
NonErrorTypes == {"string", "undefined", "null"}

OutcomePool ==
    {Resolved(<<"ok">>), Thrown("Error", <<"boom">>), Thrown("Error", <<>>),
     Thrown("TypeError", <<>>), Thrown("string", <<"bad">>),
     Thrown("undefined", <<>>), Thrown("null", <<>>)}

\* The names of the tools of the run, those of createDescribeTools in its
\* order.
ToolNames ==
    <<"identify_sections", "suggest_diagrams", "generate_svg", "validate_diagram",
      "refine_description">>

\* tools.find((t) => t.name === parsed.action)
ToolFound(action) == \E k \in DOMAIN ToolNames : action = <<ToolNames[k]>>

\* tools.map((t) => t.name).join(", ")
RECURSIVE JoinNames(_)
JoinNames(ns) ==
    IF ns = <<>> THEN <<>>
    ELSE IF Len(ns) = 1 THEN <<ns[1]>>
    ELSE <<ns[1], ",", SP>> \o JoinNames(Tail(ns))

\* err.message || String(err).  Reading message of undefined or of null
\* throws; an error with an empty message is written by String(err) as
\* its name, whatever its class, a string as itself.
ErrorMessageThrows(o) == o.ty \in {"undefined", "null"}
ErrorText(o) ==
    IF o.ty \notin NonErrorTypes /\ o.text = <<>>
    THEN (IF o.ty = "" THEN <<>> ELSE <<o.ty>>)
    ELSE o.text

ToolErrorObservation(o) == <<"Tool error: ">> \o ErrorText(o)
UnknownToolObservation(action) ==
    <<"Unknown tool: ">> \o action \o <<". Available: ">> \o JoinNames(ToolNames)

GoalMessage == [role |-> "user", content |-> <<"Goal: ", "goal", NL, NL, "Begin.">>]
AssistantMessage(text) == [role |-> "assistant", content |-> text]
ObservationMessage(obs) ==
    [role |-> "user",
     content |-> <<"Observation: ">> \o obs \o <<NL, NL, "Continue.">>]
ReminderMessage == [role |-> "user", content |-> REMINDER]

\* steps.push({ thought, action, actionInput: parsed.actionInput || "", observation })
NewStep(p, obs) ==
    [thought |-> p.thought, action |-> p.action[1],
     actionInput |-> IF p.actionInput = None THEN <<>> ELSE p.actionInput[1],
     observation |-> obs]

\* The AgentResult, without the provider.
AgentResult(st, answer, total) ==
    [steps |-> st, finalAnswer |-> answer, totalSteps |-> total]

\* runAgent rejects with the value that was thrown inside it.
Rejection(o) == [threw |-> o]

\* What the catch of lines 142-144 throws when it reads the message of
\* undefined or of null.
CatchTypeError(o) ==
    Thrown("TypeError",
           <<"Cannot read properties of ", o.ty, " (reading 'message')">>)

\* What a call of the model may throw: an error of callLlmMultiTurn
\* (./provider), such as the one for a missing API key.
ModelErrorPool ==
    {Thrown("Error", <<"No LLM provider configured.">>)}

\* The runs: options.maxSteps, the replies the model may give, what a
\* call of the model may throw and what a tool call may come to.  A run
\* with the default of 8 steps has a model of one or two replies that
\* always answers and tools that resolve.
AgentInputs ==
    {[maxSteps |-> Some(n), replies |-> ReplyPool, modelErrors |-> ModelErrorPool,
      outcomes |-> OutcomePool] :
        n \in 0..MaxAgentSteps}
    \cup {[maxSteps |-> None, replies |-> rs, modelErrors |-> {},
           outcomes |-> {Resolved(<<"ok">>)}] :
            rs \in {{ReplyNeither, ReplyFinal}, {ReplyAction}}}

InitAgent ==
    /\ SvgIdle
    /\ LlmIdle
    /\ ToolIdle
    /\ agIn \in AgentInputs
    /\ maxSteps = 0
    /\ agI = 0
    /\ messages = <<>>
    /\ steps = <<>>
    /\ agParsed = <<>>
    /\ agPc = "start"
    /\ agResult = <<>>
    /\ modelCalls = 0
    /\ toolCalls = 0

\* The loop test for the counter i with the steps st: the next call of the
\* model, or the return after the loop (lines 162-167).
LoopTest(i, st) ==
    IF i < maxSteps'
    THEN /\ agPc' = "awaiting-model"
         /\ modelCalls' = modelCalls + 1
         /\ UNCHANGED agResult
    ELSE /\ agPc' = "exhausted"
         /\ agResult' = AgentResult(st, MAX_STEPS_ANSWER, maxSteps')
         /\ UNCHANGED modelCalls

\* Lines 116-125: the locals and the first loop test.
Begin ==
    /\ agPc = "start"
    /\ maxSteps' = IF agIn.maxSteps = None THEN DEFAULT_MAX_STEPS
                   ELSE agIn.maxSteps[1]
    /\ messages' = <<GoalMessage>>
    /\ steps' = <<>>
    /\ agI' = 0
    /\ LoopTest(0, <<>>)
    /\ UNCHANGED <<agIn, agParsed, toolCalls>>
    /\ UNCHANGED <<svgVars, llmVars, toolVars>>

\* await callLlmMultiTurn(systemPrompt, messages) throws (line 126): no
\* handler is around it, and runAgent rejects with what was thrown.
ModelCallRejects ==
    /\ agPc = "awaiting-model"
    /\ \E o \in agIn.modelErrors :
          /\ agPc' = "rejected"
          /\ agResult' = Rejection(o)
    /\ UNCHANGED <<agIn, maxSteps, agI, messages, steps, agParsed, modelCalls, toolCalls>>
    /\ UNCHANGED <<svgVars, llmVars, toolVars>>

\* The reply carries a final answer: lines 127-133.
ModelRepliesFinal ==
    /\ agPc = "awaiting-model"
    /\ \E text \in agIn.replies :
          LET p == ParsedReply[text]
          IN  /\ p.finalAnswer # None
              /\ messages' = Append(messages, AssistantMessage(text))
              /\ agParsed' = p
              /\ agResult' = AgentResult(steps, p.finalAnswer[1], Len(steps))
              /\ agPc' = "done"
    /\ UNCHANGED <<agIn, maxSteps, agI, steps, modelCalls, toolCalls>>
    /\ UNCHANGED <<svgVars, llmVars, toolVars>>

\* The reply names a tool of the list: lines 127-141, up to the await.
ModelRepliesAction ==
    /\ agPc = "awaiting-model"
    /\ \E text \in agIn.replies :
          LET p == ParsedReply[text]
          IN  /\ p.finalAnswer = None
              /\ p.action # None
              /\ ToolFound(p.action[1])
              /\ messages' = Append(messages, AssistantMessage(text))
              /\ agParsed' = p
              /\ agPc' = "executing-tool"
              /\ toolCalls' = toolCalls + 1
    /\ UNCHANGED <<agIn, maxSteps, agI, steps, agResult, modelCalls>>
    /\ UNCHANGED <<svgVars, llmVars, toolVars>>

\* The reply names no tool of the list: lines 127-136, 146-156 and the
\* loop test.
ModelRepliesUnknownTool ==
    /\ agPc = "awaiting-model"
    /\ \E text \in agIn.replies :
          LET p == ParsedReply[text]
          IN  /\ p.finalAnswer = None
              /\ p.action # None
              /\ ~ToolFound(p.action[1])
              /\ LET obs == UnknownToolObservation(p.action[1])
                     st == Append(steps, NewStep(p, obs))
                 IN  /\ messages' = messages \o <<AssistantMessage(text),
                                                 ObservationMessage(obs)>>
                     /\ agParsed' = p
                     /\ steps' = st
                     /\ agI' = agI + 1
                     /\ UNCHANGED maxSteps
                     /\ LoopTest(agI + 1, st)
    /\ UNCHANGED <<agIn, toolCalls>>
    /\ UNCHANGED <<svgVars, llmVars, toolVars>>

\* The reply has no action and no final answer: lines 127-135, 158 and the
\* loop test.
ModelRepliesNothing ==
    /\ agPc = "awaiting-model"
    /\ \E text \in agIn.replies :
          LET p == ParsedReply[text]
          IN  /\ p.finalAnswer = None
              /\ p.action = None
              /\ messages' = messages \o <<AssistantMessage(text), ReminderMessage>>
              /\ agParsed' = p
              /\ agI' = agI + 1
              /\ UNCHANGED maxSteps
              /\ LoopTest(agI + 1, steps)
    /\ UNCHANGED <<agIn, steps, toolCalls>>
    /\ UNCHANGED <<svgVars, llmVars, toolVars>>

\* tool.execute resolved: lines 141, 149-156 and the loop test.
ToolResolves ==
    /\ agPc = "executing-tool"
    /\ \E o \in agIn.outcomes :
          /\ o.kind = "resolved"
          /\ LET st == Append(steps, NewStep(agParsed, o.text))
             IN  /\ messages' = Append(messages, ObservationMessage(o.text))
                 /\ steps' = st
                 /\ agI' = agI + 1
                 /\ UNCHANGED maxSteps
                 /\ LoopTest(agI + 1, st)
    /\ UNCHANGED <<agIn, agParsed, toolCalls>>
    /\ UNCHANGED <<svgVars, llmVars, toolVars>>

\* tool.execute threw: the catch of lines 142-144, then lines 149-156 and
\* the loop test; the catch itself throws when the thrown value is
\* undefined or null, and runAgent rejects.
ToolThrows ==
    /\ agPc = "executing-tool"
    /\ \E o \in agIn.outcomes :
          /\ o.kind = "thrown"
          /\ IF ErrorMessageThrows(o)
             THEN /\ agPc' = "rejected"
                  /\ agResult' = Rejection(CatchTypeError(o))
                  /\ UNCHANGED <<maxSteps, agI, messages, steps, modelCalls>>
             ELSE LET obs == ToolErrorObservation(o)
                      st == Append(steps, NewStep(agParsed, obs))
                  IN  /\ messages' = Append(messages, ObservationMessage(obs))
                      /\ steps' = st
                      /\ agI' = agI + 1
                      /\ UNCHANGED maxSteps
                      /\ LoopTest(agI + 1, st)
    /\ UNCHANGED <<agIn, agParsed, toolCalls>>
    /\ UNCHANGED <<svgVars, llmVars, toolVars>>

NextAgent ==
    \/ Begin
    \/ ModelCallRejects
    \/ ModelRepliesFinal
    \/ ModelRepliesAction
    \/ ModelRepliesUnknownTool
    \/ ModelRepliesNothing
    \/ ToolResolves
    \/ ToolThrows

SpecAgent == InitAgent /\ [][NextAgent]_vars

\* Every call of the model and of a tool comes to an end.
SpecAgentFair == SpecAgent /\ WF_vars(NextAgent)


-----------------------------------------------------------------------------
(* The replies of a run, as the claims speak of them *)

\* The step ceiling asked for: options.maxSteps, or 8.
MaxStepsAsked == IF agIn.maxSteps = None THEN 8 ELSE agIn.maxSteps[1]

\* Position k of the text holds the marker as the first token of its line
\* that is not a blank.
OpensLine(text, k, marker) ==
    /\ text[k] = marker
    /\ \A j \in 1..(k - 1) :
          (\A m \in j..(k - 1) : text[m] # NL) => text[j] \in WhiteSpace

\* The reply has a line that opens with "Final Answer:" and that is
\* followed by something other than blanks.
FinalLines(text) ==
    {k \in DOMAIN text :
        /\ OpensLine(text, k, FINAL_ANSWER_TAG)
        /\ \E j \in (k + 1)..Len(text) : text[j] \notin WhiteSpace}

CarriesFinal(text) == FinalLines(text) # {}

\* The final answer the reply carries: what follows the "Final Answer:"
\* that opens a line, to the end of the reply.
AnswerOf(text) ==
    LET k == CHOOSE n \in FinalLines(text) : \A m \in FinalLines(text) : n <= m
    IN  TrimText(SubSeq(text, k + 1, Len(text)))

\* The reply has an action: a line opens with "Action:" and names
\* something on that line.
HasAction(text) ==
    \E k \in DOMAIN text :
        /\ OpensLine(text, k, ACTION_TAG)
        /\ k < Len(text)
        /\ \E j \in (k + 1)..Len(text) :
              /\ text[j] \notin WhiteSpace
              /\ \A m \in k..j : text[m] # NL

\* The tool the reply names is in the tool list.
NamesKnownTool(text) ==
    \E k \in DOMAIN text :
        /\ OpensLine(text, k, ACTION_TAG)
        /\ \E n \in DOMAIN ToolNames :
              TrimText(SplitLines(SubSeq(text, k + 1, Len(text)))[1]) = <<ToolNames[n]>>

\* The replies of the model so far, in order.
RECURSIVE RepliesIn(_)
RepliesIn(ms) ==
    IF ms = <<>> THEN <<>>
    ELSE (IF ms[1].role = "assistant" THEN <<ms[1].content>> ELSE <<>>)
         \o RepliesIn(Tail(ms))

Replies == RepliesIn(messages)

\* The replies that call for a step: an action and no final answer.
RECURSIVE ActingReplies(_)
ActingReplies(rs) ==
    IF rs = <<>> THEN <<>>
    ELSE (IF HasAction(rs[1]) /\ ~CarriesFinal(rs[1]) THEN <<rs[1]>> ELSE <<>>)
         \o ActingReplies(Tail(rs))

\* The replies that call for a tool of the list.
RECURSIVE ToolReplies(_)
ToolReplies(rs) ==
    IF rs = <<>> THEN <<>>
    ELSE (IF NamesKnownTool(rs[1]) THEN <<rs[1]>> ELSE <<>>)
         \o ToolReplies(Tail(rs))

\* runAgent rejected with what the catch of a tool call threw.
RejectedByTool ==
    /\ agPc = "rejected"
    /\ agResult.threw.ty = "TypeError"
    /\ agResult.threw.text[3] = " (reading 'message')"

\* runAgent rejected with what a call of the model threw.
RejectedByModel ==
    agPc = "rejected" /\ \E o \in agIn.modelErrors : agResult = Rejection(o)

\* The tool call of the last reply is under way or has thrown out of runAgent.
StepPending == IF agPc = "executing-tool" \/ RejectedByTool THEN 1 ELSE 0

AgentOver == agPc \in {"done", "exhausted", "rejected"}

\* C21: the model is called at most maxSteps times (8 when the option is
\* not given) and at most maxSteps tool calls are made; the run always
\* ends: done, on the first reply that carries a final answer and with
\* the final answer of that reply, or exhausted, with the fixed answer
\* after exactly maxSteps replies none of which carries a final answer.
\* A run ends otherwise only when a call of the model or of a tool does
\* not return: the value it throws goes through runAgent.
C21_StepCeiling ==
    /\ [](agPc # "start" =>
            /\ modelCalls <= MaxStepsAsked
            /\ toolCalls <= MaxStepsAsked
            /\ Len(Replies) <= modelCalls
            /\ agPc = "done" =>
                  LET rs == Replies
                  IN  /\ rs # <<>>
                      /\ CarriesFinal(rs[Len(rs)])
                      /\ \A k \in 1..(Len(rs) - 1) : ~CarriesFinal(rs[k])
                      /\ agResult.finalAnswer = AnswerOf(rs[Len(rs)])
            /\ agPc = "exhausted" =>
                  LET rs == Replies
                  IN  /\ Len(rs) = MaxStepsAsked
                      /\ modelCalls = MaxStepsAsked
                      /\ \A k \in DOMAIN rs : ~CarriesFinal(rs[k])
                      /\ agResult.finalAnswer =
                            <<"Agent reached maximum steps. Partial results in steps above.">>
            /\ agPc = "rejected" =>
                  \/ /\ RejectedByTool
                     /\ NamesKnownTool(Replies[Len(Replies)])
                     /\ \E o \in agIn.outcomes : o.kind = "thrown"
                  \/ /\ RejectedByModel
                     /\ Len(Replies) = modelCalls - 1)
    /\ <>AgentOver

\* C27: in every AgentResult totalSteps is the number of entries of steps,
\* after a final answer and after the budget is exhausted.
C27_TotalStepsCounted ==
    agPc \in {"done", "exhausted"} => agResult.totalSteps = Len(agResult.steps)

\* C28: a failing tool never aborts runAgent: the text "Tool error: ..."
\* or "Unknown tool: ..." is the observation of a step that is appended,
\* the observation is sent back as a user message, and the loop goes on.
C28_ToolFailureRecorded ==
    /\ ~RejectedByTool
    /\ Len(steps) = Len(ActingReplies(Replies))
                      - (IF agPc = "executing-tool" THEN 1 ELSE 0)
    /\ \A k \in DOMAIN steps :
          /\ ~NamesKnownTool(ActingReplies(Replies)[k]) =>
                steps[k].observation[1] = "Unknown tool: "
          /\ \E m \in DOMAIN messages :
                /\ messages[m].role = "user"
                /\ messages[m].content =
                      <<"Observation: ">> \o steps[k].observation
                          \o <<NL, NL, "Continue.">>

\* C29: a reply that carries a final answer ends the run at once with
\* that answer: no tool is executed for it even when it has an Action
\* line, and the steps returned are those of the earlier replies; a tool
\* is executed only for a reply with an action and no final answer.
C29_FinalAnswerFirst ==
    agPc # "start" =>
        LET rs == Replies
            acting == ActingReplies(rs)
        IN  /\ toolCalls = Len(ToolReplies(acting))
            /\ Len(steps) = Len(acting) - StepPending
            /\ \A k \in DOMAIN rs :
                  CarriesFinal(rs[k]) =>
                      /\ k = Len(rs)
                      /\ agPc = "done"
                      /\ agResult.finalAnswer = AnswerOf(rs[k])
                      /\ agResult.steps = steps
            /\ agPc = "executing-tool" =>
                  HasAction(rs[Len(rs)]) /\ ~CarriesFinal(rs[Len(rs)])

\* C30: the message history starts with the goal message of the user and
\* alternates user and assistant; at every call of the model it ends with
\* a user message; every iteration that does not return appends one
\* assistant message, the reply, and then one user message, an
\* observation or the reminder; no message is ever changed or removed.
C30_MessageHistory ==
    /\ [](agPc # "start" =>
            /\ messages[1] = [role |-> "user",
                              content |-> <<"Goal: ", "goal", NL, NL, "Begin.">>]
            /\ \A k \in DOMAIN messages :
                  messages[k].role = (IF k % 2 = 1 THEN "user" ELSE "assistant")
            /\ agPc = "awaiting-model" =>
                  /\ messages[Len(messages)].role = "user"
                  /\ Len(messages) = 1 + 2 * agI
            /\ \A k \in DOMAIN messages :
                  messages[k].role = "assistant" =>
                      /\ messages[k].content \in agIn.replies
                      /\ \/ k = Len(messages) /\ agPc \in {"done", "executing-tool"}
                         \/ /\ k < Len(messages)
                            /\ messages[k + 1].role = "user"
                            /\ \/ messages[k + 1].content =
                                     <<"Use a tool or provide Final Answer.">>
                               \/ /\ messages[k + 1].content[1] = "Observation: "
                                  /\ HasAction(messages[k].content)
            /\ Len(messages) = 1 + 2 * agI
                                 + (IF agPc \in {"done", "executing-tool"} THEN 1 ELSE 0))
    /\ [][IsPrefix(messages, messages')]_vars

=============================================================================
